---------------------------- MODULE Spec2Model ----------------------------
(***************************************************************************)
(* Model of the SuperOrchestrator of ARQV30 Enhanced v3.0                  *)
(* (src/src/services/super_orchestrator.py).                               *)
(*                                                                         *)
(* Threads call execute_synchronized_analysis on one shared orchestrator.  *)
(* Each call walks the positions of the method: registration under         *)
(* sync_lock, the four stages, consolidation, saving, the final status     *)
(* update, or the outermost handler.  Content providers, the two sinks     *)
(* (salvar_etapa, salvar_erro) and the progress callback are the           *)
(* environment: each call of one of them either returns or raises.         *)
(***************************************************************************)
EXTENDS Naturals, Sequences, FiniteSets, TLC

(***************************************************************************)
(* Bounds of the model: threads, calls per thread in the sequential        *)
(* scenario, and sink calls that raise during the stages and the outermost *)
(* handler of one call.                                                    *)
(***************************************************************************)
NumThreads == 2
MaxCalls == 1
MaxSinkFaults == 2

Threads == 1..NumThreads
\* session ids are arbitrary strings; the empty string is one of them
SessionIds == {"s1", ""}
Stages == {"base", "enhanced", "funnel", "insights"}

(***************************************************************************)
(* Python values.  Every value has the same record shape, so that any two  *)
(* values can be compared: k is the type, s the text of a scalar, c the    *)
(* items of a mapping (key, val), of a list (val) or of a formatted text.  *)
(***************************************************************************)
PyNone == [k |-> "none", s |-> "", c |-> <<>>]
PyStr(x) == [k |-> "str", s |-> x, c |-> <<>>]
PyInt(x) == [k |-> "int", s |-> x, c |-> <<>>]
PyBool(b) == [k |-> "bool", s |-> IF b THEN "True" ELSE "False", c |-> <<>>]
PyFloat(x) == [k |-> "float", s |-> x, c |-> <<>>]
Item(key, val) == [key |-> key, val |-> val]
PyDict(items) == [k |-> "dict", s |-> "", c |-> items]
PyList(elems) == [k |-> "list", s |-> "", c |-> [i \in 1..Len(elems) |-> Item("", elems[i])]]
PyText(items) == [k |-> "str", s |-> "<text>", c |-> items]

IsDict(v) == v.k = "dict"
IsStr(v) == v.k = "str"

\* bool(v): None, "", 0, False, {} and [] are falsy
Truthy(v) ==
    CASE v.k = "none" -> FALSE
      [] v.k = "str" -> v.s # ""
      [] v.k = "int" -> v.s # "0"
      [] v.k = "bool" -> v.s = "True"
      [] v.k = "float" -> v.s # "0.0"
      [] OTHER -> Len(v.c) > 0

Keys(d) == {d.c[i].key : i \in 1..Len(d.c)}
HasKey(d, key) == key \in Keys(d)
\* d[key] for a key of d
Lookup(d, key) == d.c[CHOOSE i \in 1..Len(d.c) : d.c[i].key = key].val
\* d.get(key, default)
Get(d, key, default) == IF HasKey(d, key) THEN Lookup(d, key) ELSE default
\* d[key] = val
Put(d, key, val) ==
    IF HasKey(d, key)
    THEN [d EXCEPT !.c = [i \in 1..Len(d.c) |->
                             IF d.c[i].key = key THEN Item(key, val) ELSE d.c[i]]]
    ELSE [d EXCEPT !.c = Append(d.c, Item(key, val))]

\* str(v) as an f-string renders it
Format(v) == IF v.k = "none" THEN "None" ELSE v.s

Take(seq, n) == IF Len(seq) <= n THEN seq ELSE SubSeq(seq, 1, n)


(***************************************************************************)
(* _create_simple_copy: the bounded copy used for everything that goes     *)
(* into the consolidated report.                                           *)
(***************************************************************************)
SimpleCopyMaxDepth == 3
SimpleCopyMaxKeys == 20
SimpleCopyMaxItems == 10

RECURSIVE CreateSimpleCopy(_, _, _)
CreateSimpleCopy(obj, max_depth, current_depth) ==
    IF current_depth > max_depth THEN PyStr("[Max depth reached]")
    ELSE IF obj.k \in {"none", "str", "int", "float", "bool"} THEN obj
    ELSE IF obj.k = "dict"
    THEN PyDict([i \in 1..Len(Take(obj.c, SimpleCopyMaxKeys)) |->
                    Item(obj.c[i].key,
                         CreateSimpleCopy(obj.c[i].val, max_depth, current_depth + 1))])
    ELSE IF obj.k = "list"
    THEN [k |-> "list", s |-> "",
          c |-> [i \in 1..Len(Take(obj.c, SimpleCopyMaxItems)) |->
                    Item("", CreateSimpleCopy(obj.c[i].val, max_depth, current_depth + 1))]]
    ELSE PyStr(obj.s)

SimpleCopy(obj) == CreateSimpleCopy(obj, SimpleCopyMaxDepth, 0)

(***************************************************************************)
(* _create_fallback_analysis.  segmento.lower() raises AttributeError when *)
(* the request's segmento is not a string.                                 *)
(***************************************************************************)
Lower(x) ==
    CASE x = "Varejo" -> "varejo"
      [] x = "Empreendedores" -> "empreendedores"
      [] OTHER -> x

Now == PyStr("<now>")

FallbackSegmento(data) == Get(data, "segmento", PyStr("Empreendedores"))
FallbackProduto(data) == Get(data, "produto", PyStr("Programa MASI"))

FallbackRaises(data) == ~IsStr(FallbackSegmento(data))

AttributeErrorLower == "'int' object has no attribute 'lower'"

CreateFallbackAnalysis(data) ==
    PyDict(<<
        Item("tipo_analise", PyStr("FALLBACK_ROBUSTO")),
        Item("projeto_dados", data),
        Item("analise_mercado", PyDict(<<
            Item("segmento", FallbackSegmento(data)),
            Item("produto", FallbackProduto(data)),
            Item("status", PyStr("Analise basica robusta")),
            Item("tendencias", PyList(<<
                PyStr("Crescimento do mercado de " \o Lower(FallbackSegmento(data).s) \o " no Brasil"),
                PyStr("Digitalizacao acelerada pos-pandemia"),
                PyStr("Demanda por solucoes personalizadas"),
                PyStr("Foco em resultados mensuraveis") >>)),
            Item("oportunidades", PyList(<<
                PyStr("Nichos especificos com menor concorrencia"),
                PyStr("Solucoes hibridas online/offline"),
                PyStr("Parcerias estrategicas"),
                PyStr("Expansao geografica gradual") >>)) >>)),
        Item("avatar_basico", PyDict(<<
            Item("perfil", PyStr("Profissional de " \o Format(FallbackSegmento(data)))),
            Item("dores_principais", PyList(<<
                PyStr("Falta de direcionamento estrategico"),
                PyStr("Dificuldade de escalar negocio"),
                PyStr("Sobrecarga operacional") >>)),
            Item("desejos_centrais", PyList(<<
                PyStr("Crescimento sustentavel"),
                PyStr("Mais liberdade operacional"),
                PyStr("Reconhecimento no mercado") >>)) >>)),
        Item("metadata_fallback", PyDict(<<
            Item("engine", PyStr("FALLBACK ROBUSTO v1.0")),
            Item("generated_at", Now),
            Item("quality_level", PyStr("BASICO_FUNCIONAL")) >>)) >>)

(***************************************************************************)
(* _generate_executive_summary: the formatted text, kept as its            *)
(* interpolated fields and its fixed lists.                                *)
(***************************************************************************)
SummaryQualityLevel(base_analysis, enhanced_analysis) ==
    IF Truthy(enhanced_analysis) THEN "PREMIUM"
    ELSE IF Truthy(base_analysis) THEN "HIGH"
    ELSE "BASIC"

GenerateExecutiveSummary(base_analysis, enhanced_analysis, funnel_analysis, strategic_insights, original_data) ==
    PyText(<<
        Item("Segmento",
             PyStr(Format(Get(original_data, "segmento", PyStr("Empreendedores"))))),
        Item("Produto/Servico",
             PyStr(Format(Get(original_data, "produto", PyStr("Programa MASI"))))),
        Item("Data", Now),
        Item("Nivel de Qualidade",
             PyStr(SummaryQualityLevel(base_analysis, enhanced_analysis))),
        Item("Analise de Mercado",
             PyStr(IF Truthy(base_analysis) THEN "Completa" ELSE "Basica")),
        Item("Avatar Detalhado",
             PyStr(IF Truthy(base_analysis) THEN "Completo" ELSE "Basico")),
        Item("Analise Psicologica",
             PyStr(IF Truthy(enhanced_analysis) THEN "Completa" ELSE "Nao disponivel")),
        Item("Funil de Vendas",
             PyStr(IF Truthy(funnel_analysis) THEN "Completo" ELSE "Nao disponivel")),
        Item("Insights Estrategicos",
             PyStr(IF Truthy(strategic_insights) THEN "Completos" ELSE "Nao disponivel")),
        Item("PROXIMOS PASSOS RECOMENDADOS", PyList(<<
            PyStr("Revisar avatar e ajustar estrategia de comunicacao"),
            PyStr("Implementar abordagens baseadas nos insights descobertos"),
            PyStr("Monitorar metricas de performance"),
            PyStr("Otimizar estrategia baseado em resultados") >>)),
        Item("GARANTIAS DE QUALIDADE", PyList(<<
            PyStr("Sistema ultra robusto que nunca falha completamente"),
            PyStr("Sempre entrega analise funcional e aplicavel"),
            PyStr("Dados salvos automaticamente para recuperacao"),
            PyStr("Processo completamente auditavel") >>)) >>)

(***************************************************************************)
(* _consolidate_results_robustly                                           *)
(***************************************************************************)
AddIfAvailable(consolidated, key, analysis) ==
    IF Truthy(analysis) /\ IsDict(analysis)
    THEN Put(consolidated, key, SimpleCopy(analysis))
    ELSE consolidated

ConsolidateWithoutSummary(base_analysis, enhanced_analysis, funnel_analysis, strategic_insights, original_data, sid) ==
    LET c0 == PyDict(<<
                Item("session_id", PyStr(sid)),
                Item("generated_at", Now),
                Item("engine_version", PyStr("ARQV30 Enhanced v3.0 - ULTRA ROBUST")),
                Item("consolidation_status", PyStr("SUCCESS")) >>)
        c1 == AddIfAvailable(c0, "analise_base", base_analysis)
        c2 == AddIfAvailable(c1, "analise_aprimorada", enhanced_analysis)
        c3 == AddIfAvailable(c2, "analise_funil", funnel_analysis)
        c4 == AddIfAvailable(c3, "insights_estrategicos", strategic_insights)
    IN  Put(c4, "dados_originais", SimpleCopy(original_data))

ConsolidateResultsRobustly(base_analysis, enhanced_analysis, funnel_analysis, strategic_insights, original_data, sid) ==
    LET c0 == PyDict(<<
                Item("session_id", PyStr(sid)),
                Item("generated_at", Now),
                Item("engine_version", PyStr("ARQV30 Enhanced v3.0 - ULTRA ROBUST")),
                Item("consolidation_status", PyStr("SUCCESS")) >>)
        c1 == AddIfAvailable(c0, "analise_base", base_analysis)
        c2 == AddIfAvailable(c1, "analise_aprimorada", enhanced_analysis)
        c3 == AddIfAvailable(c2, "analise_funil", funnel_analysis)
        c4 == AddIfAvailable(c3, "insights_estrategicos", strategic_insights)
        c5 == Put(c4, "dados_originais", SimpleCopy(original_data))
    IN  Put(c5, "sumario_executivo",
            GenerateExecutiveSummary(base_analysis, enhanced_analysis, funnel_analysis,
                                     strategic_insights, original_data))

(***************************************************************************)
(* _safe_combine_data and _combine_all_analyses: the context handed to a   *)
(* later stage.  combined is the mapping built, shared the keys of it that *)
(* are bound to a mapping or list of an earlier analysis itself (the same  *)
(* object, not a copy), original_data the request as the call leaves it.   *)
(***************************************************************************)
Context(combined, shared, original_data) ==
    [combined |-> combined, shared |-> shared, original_data |-> original_data]

SafeFields == << "pesquisa_web_massiva", "avatar_ultra_detalhado", "metadata_gigante" >>

\* combined[field] = self._create_simple_copy(base_analysis[field])
\* (lines 190-194)
AddSafeField(combined, base_analysis, field) ==
    IF HasKey(base_analysis, field)
    THEN Put(combined, field, SimpleCopy(Lookup(base_analysis, field)))
    ELSE combined

\* combined = original_data.copy() is a new mapping: the assignments go to
\* it and the request keeps its items (lines 182-199)
SafeCombineData(original_data, base_analysis) ==
    IF ~IsDict(original_data) THEN Context(original_data, {}, original_data)
    ELSE IF Truthy(base_analysis) /\ IsDict(base_analysis)
    THEN LET c1 == AddSafeField(original_data, base_analysis, SafeFields[1])
             c2 == AddSafeField(c1, base_analysis, SafeFields[2])
             c3 == AddSafeField(c2, base_analysis, SafeFields[3])
         IN  Context(c3, {}, original_data)
    ELSE Context(original_data, {}, original_data)

\* combined[key] = analysis.get(field, {}): the object of the analysis
\* itself when it has the field (lines 217-225)
AddRawField(ctx, key, analysis, field) ==
    IF ~Truthy(analysis) THEN ctx
    ELSE Context(Put(ctx.combined, key, Get(analysis, field, PyDict(<< >>))),
                 IF HasKey(analysis, field) /\ Lookup(analysis, field).k \in {"dict", "list"}
                 THEN ctx.shared \cup {key} ELSE ctx.shared,
                 ctx.original_data)

\* (lines 205-231); .get on a truthy value that is not a mapping raises, and
\* the handler returns original_data
CombineAllAnalyses(base_analysis, enhanced_analysis, funnel_analysis, original_data) ==
    IF \/ ~IsDict(original_data)
       \/ \E a \in {base_analysis, enhanced_analysis, funnel_analysis} :
             Truthy(a) /\ ~IsDict(a)
    THEN Context(original_data, {}, original_data)
    ELSE LET c0 == Context(original_data, {}, original_data)
             c1 == AddRawField(c0, "mercado", base_analysis, "pesquisa_web_massiva")
             c2 == AddRawField(c1, "avatar", base_analysis, "avatar_ultra_detalhado")
             c3 == AddRawField(c2, "psicologia", enhanced_analysis, "consolidated_analysis")
         IN  AddRawField(c3, "funil", funnel_analysis, "funil_conversao")

(***************************************************************************)
(* _generate_minimal_success_report and the normal result                  *)
(***************************************************************************)
GenerateMinimalFailureReport(data, sid, error) ==
    PyDict(<<
        Item("success", PyBool(FALSE)),
        Item("session_id", PyStr(sid)),
        Item("execution_mode", PyStr("EMERGENCY_SUCCESS")),
        Item("report", PyDict(<<
            Item("segmento", Get(data, "segmento", PyStr("Nao especificado"))),
            Item("produto", Get(data, "produto", PyStr("Nao especificado"))) >>)),
        Item("error_handled", PyStr(error)) >>)

GenerateMinimalReportWithoutSteps(data, sid, error) ==
    PyDict(<<
        Item("success", PyBool(TRUE)),
        Item("session_id", PyStr(sid)),
        Item("execution_mode", PyStr("EMERGENCY_SUCCESS")),
        Item("report", PyDict(<<
            Item("segmento", Get(data, "segmento", PyStr("Nao especificado"))),
            Item("produto", Get(data, "produto", PyStr("Nao especificado"))),
            Item("status", PyStr("Analise de emergencia concluida com sucesso")),
            Item("proximos_passos", PyList(<< >>)),
            Item("dados_salvos", PyBool(TRUE)) >>)),
        Item("error_handled", PyStr(error)),
        Item("generated_at", Now) >>)

GenerateMinimalSuccessReport(data, sid, error) ==
    PyDict(<<
        Item("success", PyBool(TRUE)),
        Item("session_id", PyStr(sid)),
        Item("execution_mode", PyStr("EMERGENCY_SUCCESS")),
        Item("report", PyDict(<<
            Item("segmento", Get(data, "segmento", PyStr("Nao especificado"))),
            Item("produto", Get(data, "produto", PyStr("Nao especificado"))),
            Item("status", PyStr("Analise de emergencia concluida com sucesso")),
            Item("recomendacao_principal",
                 PyStr("Execute nova analise com configuracoes verificadas")),
            Item("proximos_passos", PyList(<<
                PyStr("Verificar configuracao de APIs"),
                PyStr("Testar conectividade de internet"),
                PyStr("Executar analise simples primeiro"),
                PyStr("Contatar suporte se problemas persistirem") >>)),
            Item("dados_salvos", PyBool(TRUE)) >>)),
        Item("error_handled", PyStr(error)),
        Item("generated_at", Now),
        Item("guarantee",
             PyStr("Sistema sempre funciona - analise minima sempre entregue")) >>)

ResultQualityLevel(enhanced_analysis) ==
    IF Truthy(enhanced_analysis) THEN "PREMIUM" ELSE "HIGH"

NormalResult(sid, final_results, enhanced_analysis) ==
    PyDict(<<
        Item("success", PyBool(TRUE)),
        Item("session_id", PyStr(sid)),
        Item("execution_time", PyFloat("<elapsed>")),
        Item("report", final_results),
        Item("sync_status", PyStr("ULTRA_ROBUST_SUCCESS")),
        Item("quality_level", PyStr(ResultQualityLevel(enhanced_analysis))) >>)

(***************************************************************************)
(* The environment: requests, provider outputs, and which calls may raise. *)
(* scenario "sequential": one thread calls the method up to MaxCalls       *)
(* times, and every provider, sink and callback call may raise.            *)
(* scenario "concurrent": every thread calls the method once, on the       *)
(* request with a non-string segmento; only the base provider may raise,   *)
(* which sends the call to the outermost handler.                          *)
(***************************************************************************)
ReqVarejo == PyDict(<< Item("segmento", PyStr("Varejo")), Item("produto", PyStr("Curso X")) >>)
ReqIntSegmento == PyDict(<< Item("segmento", PyInt("7")), Item("produto", PyStr("Curso X")) >>)
ReqEmpty == PyDict(<< >>)

Requests(sc) ==
    IF sc = "sequential" THEN {ReqVarejo, ReqIntSegmento, ReqEmpty}
    ELSE {ReqIntSegmento}

Callbacks(sc) == IF sc = "sequential" THEN {"none", "ok", "raises"} ELSE {"none"}

ActiveThreads(sc) == IF sc = "sequential" THEN {1} ELSE Threads

CallLimit(sc) == IF sc = "sequential" THEN MaxCalls ELSE 1

FullOutput(stage) ==
    CASE stage = "base" ->
            PyDict(<< Item("pesquisa_web_massiva",
                           PyDict(<< Item("resultados", PyList(<< PyStr("r1") >>)),
                                     Item("total_resultados", PyInt("3")) >>)),
                      Item("avatar_ultra_detalhado",
                           PyDict(<< Item("perfil", PyStr("avatar")) >>)) >>)
      [] stage = "enhanced" ->
            PyDict(<< Item("consolidated_analysis",
                           PyDict(<< Item("drivers", PyList(<< PyStr("d1") >>)) >>)) >>)
      [] stage = "funnel" ->
            PyDict(<< Item("funil_conversao",
                           PyDict(<< Item("fonte", PyStr("Benchmarks de mercado B2B")) >>)),
                      Item("metadata",
                           PyDict(<< Item("generated_at", Now) >>)) >>)
      [] OTHER ->
            PyDict(<< Item("insights_estrategicos",
                           PyDict(<< Item("status", PyStr("ok")) >>)),
                      Item("metadata",
                           PyDict(<< Item("metodologia",
                                          PyStr("Analise SWOT + BCG + Porter")) >>)) >>)

ProviderOutcomes(stage, sc) ==
    {[raises |-> FALSE, value |-> v] :
        v \in IF sc = "sequential" THEN {FullOutput(stage), PyDict(<< >>)}
              ELSE {FullOutput(stage)}}
    \cup (IF sc = "sequential" \/ stage = "base"
          THEN {[raises |-> TRUE, value |-> PyNone]} ELSE {})

SinkOutcomes(sc) == IF sc = "sequential" THEN {"ok", "raise"} ELSE {"ok"}

CallbackOutcomes(progress_callback) ==
    IF progress_callback = "raises" THEN {"ok", "raise"} ELSE {"ok"}

ProviderError == "TimeoutError"
CallbackError == "progress callback failed"
SinkError == "sink failed"

EtapaName(stage) ==
    CASE stage = "base" -> "analise_base_robusta"
      [] stage = "enhanced" -> "analise_psicologica_robusta"
      [] stage = "funnel" -> "analise_funil_vendas"
      [] OTHER -> "insights_estrategicos"

ErroName(stage) ==
    CASE stage = "base" -> "analise_base_falhou"
      [] stage = "enhanced" -> "analise_psicologica_falhou"
      [] stage = "funnel" -> "analise_funil_falhou"
      [] OTHER -> "insights_estrategicos_falhou"

EssentialCategories == {"completas", "reports", "analise_completa"}

(***************************************************************************)
(* State.                                                                  *)
(*   execution_state  the orchestrator's map, session id -> record         *)
(*   sync_lock        0 when free, else the thread holding it              *)
(*   registrations    how many calls registered each session id (history)  *)
(*   pc, calls        each thread's position and number of calls begun     *)
(*   loc              the locals of each thread's current call             *)
(*   hist             what the environment did during the current call:    *)
(*                    providers invoked, providers that raised, what the   *)
(*                    others returned, sink calls that raised, errors the  *)
(*                    error sink recorded, whether the callback raised,    *)
(*                    the context each provider was given, the steps the   *)
(*                    call began, in order                                 *)
(*   outcome, result  how the current call ended and what it returned      *)
(*   sanitizer        one call of _deep_clean_data or _create_simple_copy  *)
(*                    on an object graph: the objects, the arguments, and  *)
(*                    once the call is over, how it ended and its value    *)
(*   query            one call of get_analysis_status or                   *)
(*                    get_session_progress by another thread: its answer   *)
(*                    and who held sync_lock when it read the map          *)
(***************************************************************************)
VARIABLES scenario, execution_state, sync_lock, registrations, pc, calls, loc, hist, outcome, result, sanitizer, query

vars == << scenario, execution_state, sync_lock, registrations, pc, calls, loc, hist, outcome, result, sanitizer, query >>

NoLocals ==
    [data |-> PyNone, session_id |-> "", progress_callback |-> "none",
     base_analysis |-> PyNone, enhanced_analysis |-> PyNone,
     funnel_analysis |-> PyNone, strategic_insights |-> PyNone,
     final_results |-> PyNone, e |-> ""]

NoHistory ==
    [invoked |-> {}, providerRaised |-> {}, returned |-> [st \in Stages |-> PyNone],
     etapaRaised |-> {},
     erroRaised |-> {}, erroLog |-> {}, cbRaised |-> FALSE, faults |-> 0,
     context |-> [st \in Stages |-> Context(PyNone, {}, PyNone)], order |-> << >>]

\* no status query was made
NoQuery == [fn |-> "", session_id |-> "", answer |-> << >>, holder |-> 0]

InitCommon ==
    /\ execution_state = << >>
    /\ sync_lock = 0
    /\ registrations = [s \in SessionIds |-> 0]
    /\ pc = [t \in Threads |-> "idle"]
    /\ calls = [t \in Threads |-> 0]
    /\ loc = [t \in Threads |-> NoLocals]
    /\ hist = [t \in Threads |-> NoHistory]
    /\ outcome = [t \in Threads |-> "none"]
    /\ result = [t \in Threads |-> PyNone]
    /\ query = NoQuery

\* no sanitizer call is under way
NoSanitizerCall ==
    [phase |-> "idle", heap |-> << >>, obj |-> PyNone, default |-> TRUE, max_depth |-> 0,
     fn |-> "", raised |-> FALSE, out |-> PyNone, raisedAgain |-> FALSE, outAgain |-> PyNone,
     session_id |-> "", saveRaised |-> FALSE, saved |-> PyNone]

Init == scenario = "sequential" /\ InitCommon /\ sanitizer = NoSanitizerCall

InitConcurrent == scenario = "concurrent" /\ InitCommon /\ sanitizer = NoSanitizerCall

(***************************************************************************)
(* execute_synchronized_analysis, position by position.                    *)
(***************************************************************************)
Escape(l, text) == [l EXCEPT !.e = text]

\* the call begins: arguments bound, locals fresh (lines 34-45)
Start(t) ==
    /\ t \in ActiveThreads(scenario)
    /\ pc[t] \in {"idle", "done"}
    /\ calls[t] < CallLimit(scenario)
    /\ \E d \in Requests(scenario), sid \in SessionIds, cb \in Callbacks(scenario) :
          loc' = [loc EXCEPT ![t] = [NoLocals EXCEPT !.data = d, !.session_id = sid,
                                                    !.progress_callback = cb]]
    /\ calls' = [calls EXCEPT ![t] = @ + 1]
    /\ hist' = [hist EXCEPT ![t] = NoHistory]
    /\ outcome' = [outcome EXCEPT ![t] = "none"]
    /\ result' = [result EXCEPT ![t] = PyNone]
    /\ pc' = [pc EXCEPT ![t] = "register"]
    /\ UNCHANGED << query, sanitizer, scenario, execution_state, sync_lock, registrations >>

\* with self.sync_lock: (lines 48, 151, 170)
AcquireLock(t) ==
    /\ pc[t] \in {"register", "complete", "handler"}
    /\ sync_lock = 0
    /\ sync_lock' = t
    /\ pc' = [pc EXCEPT ![t] = CASE pc[t] = "register" -> "registering"
                                 [] pc[t] = "complete" -> "completing"
                                 [] OTHER -> "handling"]
    /\ UNCHANGED << query, sanitizer, scenario, execution_state, registrations, calls, loc, hist, outcome, result >>

InitialStatePending(start_time) ==
    [status |-> "pending", start_time |-> start_time, errors |-> << >>,
     execution_time |-> PyNone, error |-> PyNone]

\* the record a call registers (lines 49-53)
InitialState(start_time) ==
    [status |-> "running", start_time |-> start_time, errors |-> << >>,
     execution_time |-> PyNone, error |-> PyNone]

TotalRegistrations == registrations["s1"] + registrations[""]

RegisterKeepingLock(t) ==
    /\ pc[t] = "registering"
    /\ sync_lock = t
    /\ LET sid == loc[t].session_id
       IN  /\ execution_state' =
                [s \in DOMAIN execution_state \cup {sid} |->
                    IF s = sid THEN InitialState(TotalRegistrations + 1)
                    ELSE execution_state[s]]
           /\ registrations' = [registrations EXCEPT ![sid] = @ + 1]
    /\ UNCHANGED sync_lock
    /\ pc' = [pc EXCEPT ![t] = "notify"]
    /\ UNCHANGED << query, sanitizer, scenario, calls, loc, hist, outcome, result >>

\* self.execution_state[session_id] = {...} (lines 49-53)
Register(t) ==
    /\ pc[t] = "registering"
    /\ sync_lock = t
    /\ LET sid == loc[t].session_id
       IN  /\ execution_state' =
                [s \in DOMAIN execution_state \cup {sid} |->
                    IF s = sid THEN InitialState(TotalRegistrations + 1)
                    ELSE execution_state[s]]
           /\ registrations' = [registrations EXCEPT ![sid] = @ + 1]
    /\ sync_lock' = 0
    /\ pc' = [pc EXCEPT ![t] = "notify"]
    /\ UNCHANGED << query, sanitizer, scenario, calls, loc, hist, outcome, result >>

\* progress_callback(1, ...) outside every stage (lines 55-56)
NotifyStart(t) ==
    /\ pc[t] = "notify"
    /\ \E cb \in CallbackOutcomes(loc[t].progress_callback) :
          IF cb = "raise"
          THEN /\ loc' = [loc EXCEPT ![t] = Escape(@, CallbackError)]
               /\ hist' = [hist EXCEPT ![t].cbRaised = TRUE]
               /\ pc' = [pc EXCEPT ![t] = "handler"]
          ELSE /\ pc' = [pc EXCEPT ![t] = "stage1"]
               /\ UNCHANGED << loc, hist >>
    /\ UNCHANGED << query, sanitizer, scenario, execution_state, sync_lock, registrations, calls, outcome, result >>

StagePc(stage) ==
    CASE stage = "base" -> "stage1"
      [] stage = "enhanced" -> "stage2"
      [] stage = "funnel" -> "stage3"
      [] OTHER -> "stage4"

NextPc(stage) ==
    CASE stage = "base" -> "stage2"
      [] stage = "enhanced" -> "stage3"
      [] stage = "funnel" -> "stage4"
      [] OTHER -> "consolidate"

SetAnalysis(l, stage, v) ==
    CASE stage = "base" -> [l EXCEPT !.base_analysis = v]
      [] stage = "enhanced" -> [l EXCEPT !.enhanced_analysis = v]
      [] stage = "funnel" -> [l EXCEPT !.funnel_analysis = v]
      [] OTHER -> [l EXCEPT !.strategic_insights = v]

\* the stage's local once its except clause has run; assigned is what the try
\* body had bound before it raised (lines 73, 94, 98/111-113, 116/129-131)
ValueAfterFailure(stage, data, assigned) ==
    CASE stage = "base" -> CreateFallbackAnalysis(data)
      [] stage = "enhanced" -> PyNone
      [] OTHER -> assigned

\* the stage's except clause begins with a call that can itself raise (line 73)
HandlerRaises(stage, data) == stage = "base" /\ FallbackRaises(data)

\* what the stage's provider is called with (lines 62-64, 83-86, 102-105,
\* 122-124)
StageContext(stage, l) ==
    CASE stage = "base" -> Context(l.data, {}, l.data)
      [] stage \in {"enhanced", "funnel"} -> SafeCombineData(l.data, l.base_analysis)
      [] OTHER -> CombineAllAnalyses(l.base_analysis, l.enhanced_analysis,
                                     l.funnel_analysis, l.data)

\* one stage: callback, context, provider, salvar_etapa inside try; the
\* except clause (lines 58-74, 76-95, 97-113, 115-131)
RunStage(t, stage) ==
    /\ pc[t] = StagePc(stage)
    /\ \E cb \in CallbackOutcomes(loc[t].progress_callback),
          po \in ProviderOutcomes(stage, scenario),
          se \in SinkOutcomes(scenario), sr \in SinkOutcomes(scenario) :
          LET l == loc[t]
              h == hist[t]
              cbRaises == cb = "raise"
              called == ~cbRaises
              returned == called /\ ~po.raises
              etapaFails == returned /\ se = "raise"
              bodyFails == ~returned \/ etapaFails
              assigned == IF returned THEN po.value ELSE PyNone
              handlerFails == bodyFails /\ HandlerRaises(stage, l.data)
              erroCalled == bodyFails /\ ~handlerFails
              erroFails == erroCalled /\ sr = "raise"
              used == (IF etapaFails THEN 1 ELSE 0) + (IF erroFails THEN 1 ELSE 0)
              value == IF ~bodyFails THEN po.value
                       ELSE IF handlerFails THEN assigned
                       ELSE ValueAfterFailure(stage, l.data, assigned)
              ctx == StageContext(stage, l)
              l1 == SetAnalysis(IF called THEN [l EXCEPT !.data = ctx.original_data] ELSE l,
                                stage, value)
              h1 == [invoked |-> IF called THEN h.invoked \cup {stage} ELSE h.invoked,
                     providerRaised |-> IF called /\ po.raises
                                        THEN h.providerRaised \cup {stage}
                                        ELSE h.providerRaised,
                     returned |-> IF returned THEN [h.returned EXCEPT ![stage] = po.value]
                                  ELSE h.returned,
                     etapaRaised |-> IF etapaFails THEN h.etapaRaised \cup {stage}
                                     ELSE h.etapaRaised,
                     erroRaised |-> IF erroFails THEN h.erroRaised \cup {ErroName(stage)}
                                    ELSE h.erroRaised,
                     erroLog |-> IF erroCalled /\ ~erroFails
                                 THEN h.erroLog \cup {ErroName(stage)} ELSE h.erroLog,
                     cbRaised |-> h.cbRaised \/ cbRaises,
                     faults |-> h.faults + used,
                     context |-> IF called THEN [h.context EXCEPT ![stage] = ctx]
                                 ELSE h.context,
                     order |-> Append(h.order, stage)]
          IN  /\ h.faults + used <= MaxSinkFaults
              /\ hist' = [hist EXCEPT ![t] = h1]
              /\ IF handlerFails
                 THEN /\ loc' = [loc EXCEPT ![t] = Escape(l1, AttributeErrorLower)]
                      /\ pc' = [pc EXCEPT ![t] = "handler"]
                 ELSE IF erroFails
                 THEN /\ loc' = [loc EXCEPT ![t] = Escape(l1, SinkError)]
                      /\ pc' = [pc EXCEPT ![t] = "handler"]
                 ELSE /\ loc' = [loc EXCEPT ![t] = l1]
                      /\ pc' = [pc EXCEPT ![t] = NextPc(stage)]
    /\ UNCHANGED << query, sanitizer, scenario, execution_state, sync_lock, registrations, calls, outcome, result >>

Stage1(t) == RunStage(t, "base")
Stage2(t) == RunStage(t, "enhanced")
Stage3(t) == RunStage(t, "funnel")
Stage4(t) == RunStage(t, "insights")

\* progress_callback(12, ...) and _consolidate_results_robustly (lines 133-139)
Consolidate(t) ==
    /\ pc[t] = "consolidate"
    /\ \E cb \in CallbackOutcomes(loc[t].progress_callback) :
          IF cb = "raise"
          THEN /\ loc' = [loc EXCEPT ![t] = Escape(@, CallbackError)]
               /\ hist' = [hist EXCEPT ![t].cbRaised = TRUE]
               /\ pc' = [pc EXCEPT ![t] = "handler"]
          ELSE /\ loc' = [loc EXCEPT ![t].final_results =
                            ConsolidateResultsRobustly(
                                loc[t].base_analysis, loc[t].enhanced_analysis,
                                loc[t].funnel_analysis, loc[t].strategic_insights,
                                loc[t].data, loc[t].session_id)]
               /\ pc' = [pc EXCEPT ![t] = "save"]
               /\ hist' = [hist EXCEPT ![t].order = Append(@, "consolidation")]
    /\ UNCHANGED << query, sanitizer, scenario, execution_state, sync_lock, registrations, calls, outcome, result >>

\* progress_callback(15, ...) and _safe_save_all_data, which swallows every
\* failure of salvar_etapa (lines 141-145, 384-395); the history keeps only
\* whether one of the three final saves raised
Save(t) ==
    /\ pc[t] = "save"
    /\ \E cb \in CallbackOutcomes(loc[t].progress_callback) :
          IF cb = "raise"
          THEN /\ loc' = [loc EXCEPT ![t] = Escape(@, CallbackError)]
               /\ hist' = [hist EXCEPT ![t].cbRaised = TRUE]
               /\ pc' = [pc EXCEPT ![t] = "handler"]
          ELSE /\ \E failed \in SUBSET EssentialCategories :
                     /\ failed # {} => "raise" \in SinkOutcomes(scenario)
                     /\ hist' = [hist EXCEPT
                                   ![t].etapaRaised =
                                       IF failed # {} THEN @ \cup {"final"} ELSE @,
                                   ![t].order = Append(@, "persistence")]
               /\ pc' = [pc EXCEPT ![t] = "complete"]
               /\ UNCHANGED loc
    /\ UNCHANGED << query, sanitizer, scenario, execution_state, sync_lock, registrations, calls, outcome, result >>

\* status 'completed' under the lock, then the normal return (lines 147-164)
Complete(t) ==
    /\ pc[t] = "completing"
    /\ sync_lock = t
    /\ execution_state' = [execution_state EXCEPT
                              ![loc[t].session_id].status = "completed",
                              ![loc[t].session_id].execution_time = PyFloat("<elapsed>")]
    /\ sync_lock' = 0
    /\ result' = [result EXCEPT ![t] =
                    NormalResult(loc[t].session_id, loc[t].final_results,
                                 loc[t].enhanced_analysis)]
    /\ outcome' = [outcome EXCEPT ![t] = "returned"]
    /\ pc' = [pc EXCEPT ![t] = "done"]
    /\ UNCHANGED << query, sanitizer, scenario, registrations, calls, loc, hist >>

\* the outermost handler: status 'completed_with_errors' under the lock, then
\* salvar_erro, then the minimal report (lines 166-177)
HandleCritical(t) ==
    /\ pc[t] = "handling"
    /\ sync_lock = t
    /\ execution_state' = [execution_state EXCEPT
                              ![loc[t].session_id].status = "completed_with_errors",
                              ![loc[t].session_id].error = PyStr(loc[t].e)]
    /\ sync_lock' = 0
    /\ \E sr \in SinkOutcomes(scenario) :
          IF sr = "raise"
          THEN /\ hist[t].faults + 1 <= MaxSinkFaults
               /\ hist' = [hist EXCEPT
                             ![t].erroRaised = @ \cup {"super_orchestrator_critico"},
                             ![t].faults = @ + 1]
               /\ outcome' = [outcome EXCEPT ![t] = "raised"]
               /\ UNCHANGED result
          ELSE /\ hist' = [hist EXCEPT
                             ![t].erroLog = @ \cup {"super_orchestrator_critico"}]
               /\ outcome' = [outcome EXCEPT ![t] = "returned"]
               /\ result' = [result EXCEPT ![t] =
                               GenerateMinimalSuccessReport(
                                   loc[t].data, loc[t].session_id, loc[t].e)]
    /\ pc' = [pc EXCEPT ![t] = "done"]
    /\ UNCHANGED << query, sanitizer, scenario, registrations, calls, loc >>

(***************************************************************************)
(* get_analysis_status: a read of execution_state, taken without the lock. *)
(* session_id is a string; the empty string (like the default None) is     *)
(* falsy.                                                                  *)
(***************************************************************************)
NotFoundMarker == [status |-> "not_found", message |-> "Analise nao encontrada"]

GetAnalysisStatus(state, session_id) ==
    IF session_id # "" /\ session_id \in DOMAIN state
    THEN [session_id |-> session_id,
          status |-> state[session_id].status,
          started_at |-> state[session_id].start_time,
          error |-> state[session_id].error]
    ELSE NotFoundMarker

\* get_session_progress: another read taken without the lock (lines 445-471)
GetSessionProgress(state, session_id) ==
    IF session_id \notin DOMAIN state THEN << >>
    ELSE IF state[session_id].status = "running"
    THEN [completed |-> FALSE, percentage |-> 50, current_step |-> "Em andamento...",
          total_steps |-> 15, estimated_time |-> "5-10 min"]
    ELSE IF state[session_id].status \in {"completed", "completed_with_errors"}
    THEN [completed |-> TRUE, percentage |-> 100, current_step |-> "Concluido",
          total_steps |-> 15, estimated_time |-> "0m"]
    ELSE << >>

\* orchestrator.get_analysis_status(session_id), from a thread that runs no
\* analysis: it reads the map at once, whoever holds sync_lock
QueryStatus ==
    /\ query = NoQuery
    /\ \E session_id \in SessionIds :
          query' = [fn |-> "get_analysis_status", session_id |-> session_id,
                    answer |-> GetAnalysisStatus(execution_state, session_id),
                    holder |-> sync_lock]
    /\ UNCHANGED << scenario, execution_state, sync_lock, registrations, pc, calls, loc, hist, outcome, result, sanitizer >>

\* orchestrator.get_session_progress(session_id), likewise
QueryProgress ==
    /\ query = NoQuery
    /\ \E session_id \in SessionIds :
          query' = [fn |-> "get_session_progress", session_id |-> session_id,
                    answer |-> GetSessionProgress(execution_state, session_id),
                    holder |-> sync_lock]
    /\ UNCHANGED << scenario, execution_state, sync_lock, registrations, pc, calls, loc, hist, outcome, result, sanitizer >>

\* the steps of one thread's calls of execute_synchronized_analysis
ThreadNext(t) ==
    \/ Start(t)
    \/ AcquireLock(t)
    \/ Register(t)
    \/ NotifyStart(t)
    \/ Stage1(t)
    \/ Stage2(t)
    \/ Stage3(t)
    \/ Stage4(t)
    \/ Consolidate(t)
    \/ Save(t)
    \/ Complete(t)
    \/ HandleCritical(t)

Next == \E t \in Threads : ThreadNext(t)

Spec == Init /\ [][Next]_vars

SpecConcurrent == InitConcurrent /\ [][Next]_vars

\* concurrent calls with status queries arriving at any moment
NextQueries == Next \/ QueryStatus \/ QueryProgress

SpecQueries == InitConcurrent /\ [][NextQueries]_vars

\* the steps that take and release the lock
LockStep(t) == AcquireLock(t) \/ Register(t) \/ Complete(t) \/ HandleCritical(t)

\* a thread inside a with-block runs on to its end (the block holds only
\* assignments to the map), and a thread blocked on the lock takes it once
\* it stays free; nothing is assumed of providers, sinks and callbacks
SpecFair == InitConcurrent /\ [][Next]_vars /\ \A t \in Threads : WF_vars(LockStep(t))

(***************************************************************************)
(* The sanitizers on object graphs.                                        *)
(*                                                                         *)
(* _deep_clean_data (comprehensive_report_generator.py) and                *)
(* _create_simple_copy take any Python object.  The input is a heap of     *)
(* objects (mappings, lists and objects of other types) whose items are    *)
(* scalars or references to objects of the heap, so that an object can be  *)
(* reached twice (aliasing) or from itself.  A string is the first n        *)
(* characters of a text, followed or not by the truncation marker.  The    *)
(* value returned is a tree whose mappings and lists carry                 *)
(* the identity of the object they are: the place of the call that created *)
(* them, or the input object when the input object itself is returned.     *)
(***************************************************************************)
GraphObjects == 2
MaxDepthArg == 2

MaxStringLen == 10000
TruncationMarkerLen == 15
DeepCleanDefaultDepth == 10
DeepCleanMaxItems == 50
DeepCleanOtherLen == 1000
SimpleCopyOtherLen == 500

DenyList == {"circular_ref", "parent", "root", "_internal"}

Min(a, b) == IF a <= b THEN a ELSE b

\* input values: scalars, and references to objects of the heap
SNone == [k |-> "none", s |-> "", n |-> 0, tr |-> FALSE, r |-> 0]
SStr(text, len) == [k |-> "str", s |-> text, n |-> len, tr |-> FALSE, r |-> 0]
SInt(i) == [k |-> "int", s |-> "", n |-> i, tr |-> FALSE, r |-> 0]
SRef(id) == [k |-> "ref", s |-> "", n |-> 0, tr |-> FALSE, r |-> id]

\* heap objects; an object of another type has the length of its str() and
\* whether str() raises on it
HDict(entries) == [k |-> "dict", c |-> entries, n |-> 0, raises |-> FALSE]
HList(vals) == [k |-> "list", c |-> [i \in 1..Len(vals) |-> Item("", vals[i])], n |-> 0, raises |-> FALSE]
HOther(len, raises) == [k |-> "other", c |-> << >>, n |-> len, raises |-> raises]
\* an instance of a subclass of dict or list whose items() or slicing raises
HBroken(kind) == [k |-> kind, c |-> << >>, n |-> 0, raises |-> TRUE]

\* returned values
NoId == [fresh |-> FALSE, at |-> << >>, obj |-> 0]
Fresh(at) == [fresh |-> TRUE, at |-> at, obj |-> 0]
ONone == [k |-> "none", s |-> "", n |-> 0, tr |-> FALSE, id |-> NoId, c |-> << >>]
\* return obj, for a scalar
OSame(v) == [k |-> v.k, s |-> v.s, n |-> v.n, tr |-> v.tr, id |-> NoId, c |-> << >>]
\* a string of len characters of text, followed by the truncation marker or not
OStr(text, len, truncated) == [k |-> "str", s |-> text, n |-> len, tr |-> truncated, id |-> NoId, c |-> << >>]
ODict(at, entries) == [k |-> "dict", s |-> "", n |-> 0, tr |-> FALSE, id |-> Fresh(at), c |-> entries]
OList(at, entries) == [k |-> "list", s |-> "", n |-> 0, tr |-> FALSE, id |-> Fresh(at), c |-> entries]

StrLen(v) == v.n + (IF v.tr THEN TruncationMarkerLen ELSE 0)

Returns(v) == [raised |-> FALSE, val |-> v]
Raises == [raised |-> TRUE, val |-> ONone]

\* {"error": "Max depth reached"}, a new mapping at every call (line 28)
DeepCleanMarker(at) == ODict(at, << Item("error", OStr("Max depth reached", 17, FALSE)) >>)

NotDenied(e) == e.key \notin DenyList

KeptEntriesAll(entries) == entries

\* the items of a mapping that pass the deny-list (lines 38-42)
KeptEntries(entries) == SelectSeq(entries, NotDenied)

ListItemsOffByOne(entries) == SubSeq(entries, 2, Min(Len(entries), DeepCleanMaxItems))

ListItemsUncapped(entries) == entries

\* obj[:50] (line 55)
ListItems(entries) == Take(entries, DeepCleanMaxItems)

\* value[:10000] + "... [truncated]" (line 46)
Truncate(v) == OStr(v.s, Min(v.n, MaxStringLen), TRUE)

RecoverAsNone(r, marker) == r.val

\* try: ... except Exception: the error marker for this key or index
\* (lines 39-50, 56-59)
Recover(r, marker) == IF r.raised THEN marker ELSE r.val

\* str(obj)[:1000], guarded (lines 63-66)
DeepCleanOther(o) ==
    IF o.raises THEN OStr("[Unserializable object]", 23, FALSE)
    ELSE OStr("str(obj)", Min(o.n, DeepCleanOtherLen), FALSE)

RECURSIVE DeepCleanData(_, _, _, _, _)
DeepCleanData(h, obj, max_depth, current_depth, at) ==
    IF current_depth > max_depth THEN Returns(DeepCleanMarker(at))
    ELSE IF obj.k = "none" THEN Returns(ONone)
    ELSE IF obj.k # "ref" THEN Returns(OSame(obj))
    ELSE IF h[obj.r].k \in {"dict", "list"} /\ h[obj.r].raises THEN Raises
    ELSE IF h[obj.r].k = "dict"
    THEN LET kept == KeptEntries(h[obj.r].c)
         IN  Returns(ODict(at, [i \in 1..Len(kept) |->
                Item(kept[i].key,
                     IF kept[i].val.k = "str" /\ StrLen(kept[i].val) > MaxStringLen
                     THEN Truncate(kept[i].val)
                     ELSE Recover(DeepCleanData(h, kept[i].val, max_depth,
                                                current_depth + 1, Append(at, i)),
                                  OStr("[Error processing: ]", 19, FALSE)))]))
    ELSE IF h[obj.r].k = "list"
    THEN LET items == ListItems(h[obj.r].c)
         IN  Returns(OList(at, [i \in 1..Len(items) |->
                Item("",
                     Recover(DeepCleanData(h, items[i].val, max_depth,
                                           current_depth + 1, Append(at, i)),
                             OStr("[Error in item : ]", 17, FALSE)))]))
    ELSE Returns(DeepCleanOther(h[obj.r]))

\* _create_simple_copy on an object graph: nothing is guarded, and an
\* exception inside a comprehension leaves the call (lines 233-248)
RECURSIVE CreateSimpleCopyGraph(_, _, _, _, _)
CreateSimpleCopyGraph(h, obj, max_depth, current_depth, at) ==
    IF current_depth > max_depth THEN Returns(OStr("[Max depth reached]", 19, FALSE))
    ELSE IF obj.k # "ref" THEN Returns(OSame(obj))
    ELSE IF h[obj.r].raises THEN Raises
    ELSE IF h[obj.r].k \in {"dict", "list"}
    THEN LET items == Take(h[obj.r].c, IF h[obj.r].k = "dict" THEN SimpleCopyMaxKeys
                                       ELSE SimpleCopyMaxItems)
             rs == [i \in 1..Len(items) |->
                      CreateSimpleCopyGraph(h, items[i].val, max_depth,
                                            current_depth + 1, Append(at, i))]
             copied == [i \in 1..Len(items) |-> Item(items[i].key, rs[i].val)]
         IN  IF \E i \in 1..Len(items) : rs[i].raised THEN Raises
             ELSE IF h[obj.r].k = "dict" THEN Returns(ODict(at, copied))
             ELSE Returns(OList(at, copied))
    ELSE Returns(OStr("str(obj)", Min(h[obj.r].n, SimpleCopyOtherLen), FALSE))

(***************************************************************************)
(* The inputs of the sanitizers: every graph of GraphObjects objects whose *)
(* first object has two items and the others one, and named graphs for the *)
(* large cases.                                                            *)
(***************************************************************************)
GraphIds == 1..GraphObjects
GraphValues == {SInt(1), SStr("x", MaxStringLen + 1)} \cup {SRef(i) : i \in GraphIds}
GraphKeys == {"a", "parent"}

RootShapes ==
    {HDict(<< Item(key, v), Item("b", w) >>) : key \in GraphKeys, v \in GraphValues, w \in GraphValues}
       \cup {HList(<< v, w >>) : v \in GraphValues, w \in GraphValues}

InnerShapes ==
    {HDict(<< Item(key, v) >>) : key \in GraphKeys, v \in GraphValues}
       \cup {HList(<< v >>) : v \in GraphValues}

GraphHeaps ==
    {[i \in GraphIds |-> IF i = 1 THEN root ELSE inner[i]] :
        root \in RootShapes, inner \in [GraphIds \ {1} -> InnerShapes]}

\* d = {}; d['a'] = d
SelfDict == << HDict(<< Item("a", SRef(1)), Item("name", SStr("n", 1)) >>) >>
\* l = []; l.append(l)
SelfList == << HList(<< SRef(1), SInt(7) >>) >>
\* one list under two keys
AliasedList == << HDict(<< Item("x", SRef(2)), Item("y", SRef(2)) >>), HList(<< SInt(1), SInt(2) >>) >>
\* a child that points back to its parent
BackPointer ==
    << HDict(<< Item("child", SRef(2)), Item("v", SInt(1)) >>),
       HDict(<< Item("parent", SRef(1)), Item("circular_ref", SRef(2)),
                Item("w", SStr("w", 50000)) >>) >>
LongInList == << HList(<< SStr("t", 50000), SStr("u", 5) >>) >>
LongInDict == << HDict(<< Item("k", SStr("t", 50000)), Item("j", SStr("u", MaxStringLen)) >>) >>
\* list(range(1, 1001))
BigList == << HList([i \in 1..1000 |-> SInt(i)]) >>
\* [d] * 60
RepeatedDict ==
    << HList([i \in 1..60 |-> SRef(2)]),
       HDict(<< Item("parent", SInt(1)), Item("v", SInt(2)) >>) >>
WideDict == << HDict([i \in 1..(DeepCleanMaxItems + 1) |-> Item("k" \o ToString(i), SInt(i))]) >>
DeniedInList ==
    << HList(<< SRef(2), SRef(3) >>),
       HDict(<< Item("root", SInt(1)), Item("ok", SInt(2)) >>),
       HDict(<< Item("_internal", SRef(1)), Item("fine", SRef(1)) >>) >>
Unprintable == << HDict(<< Item("o", SRef(2)), Item("p", SRef(3)) >>), HOther(0, TRUE), HOther(2000, FALSE) >>
\* values whose items() or slicing raises, among well-behaved siblings
BrokenItems ==
    << HDict(<< Item("a", SRef(2)), Item("b", SInt(1)), Item("c", SRef(3)) >>),
       HBroken("dict"),
       HList(<< SRef(4), SInt(5), SRef(2) >>),
       HBroken("list") >>
BrokenTop == << HBroken("dict") >>
\* a self-referential mapping with a long string, a long list, a deny-listed
\* key and an object of another type
Everything ==
    << HDict(<< Item("a", SRef(1)), Item("s", SStr("t", 50000)), Item("l", SRef(2)),
                Item("parent", SInt(1)), Item("o", SRef(3)) >>),
       HList([i \in 1..60 |-> SInt(i)]),
       HOther(2000, FALSE) >>


RECURSIVE PyContainers(_, _)
\* the mappings and lists of a value of the orchestrator, each with its place
PyContainers(v, p) ==
    IF v.k \in {"dict", "list"}
    THEN {[p |-> p, v |-> v]}
            \cup UNION {PyContainers(v.c[i].val, Append(p, i)) : i \in 1..Len(v.c)}
    ELSE {}

RECURSIVE PathBefore(_, _)
PathBefore(p, q) ==
    IF p = << >> THEN q # << >>
    ELSE IF q = << >> THEN FALSE
    ELSE IF Head(p) # Head(q) THEN Head(p) < Head(q)
    ELSE PathBefore(Tail(p), Tail(q))

IntValue(text) == CHOOSE i \in 0..9 : ToString(i) = text

\* a value built by the orchestrator, as the object graph the generator is
\* given: one object for each mapping and list, the root first
PyHeap(v) ==
    LET places == PyContainers(v, << >>)
        Rank(p) == Cardinality({x \in places : PathBefore(x.p, p)}) + 1
        Scalar(w) == [k |-> w.k, s |-> w.s,
                      n |-> IF w.k = "int" THEN IntValue(w.s) ELSE Len(w.s),
                      tr |-> FALSE, r |-> 0]
    IN  [i \in 1..Cardinality(places) |->
            LET x == CHOOSE y \in places : Rank(y.p) = i
            IN  [k |-> x.v.k,
                 c |-> [j \in 1..Len(x.v.c) |->
                          Item(x.v.c[j].key,
                               IF x.v.c[j].val.k \in {"dict", "list"}
                               THEN SRef(Rank(Append(x.p, j)))
                               ELSE Scalar(x.v.c[j].val))],
                 n |-> 0, raises |-> FALSE]]

\* the report of the orchestrator for the request Varejo / Curso X when
\* every provider returned its full output
VarejoReport ==
    PyHeap(ConsolidateResultsRobustly(FullOutput("base"), FullOutput("enhanced"),
                                      FullOutput("funnel"), FullOutput("insights"),
                                      ReqVarejo, "s1"))
\* the same with no provider output at all
VarejoReportBare ==
    PyHeap(ConsolidateResultsRobustly(PyNone, PyNone, PyNone, PyNone, ReqVarejo, "s1"))
\* a mapping with the keys _extract_safe_data reads
DirectData ==
    << HDict(<< Item("projeto_dados", SRef(2)), Item("pesquisa_web_massiva", SRef(3)),
                Item("metadata_gigante", SRef(4)),
                Item("agentes_psicologicos_detalhados", SInt(1)),
                Item("analise_funil", SInt(1)), Item("insights_estrategicos", SInt(1)) >>),
       HDict(<< Item("segmento", SStr("Varejo", 6)), Item("produto", SStr("Curso X", 7)) >>),
       HDict(<< Item("total_resultados", SInt(3)) >>),
       HDict(<< Item("processing_time_formatted", SStr("3s", 2)) >>) >>
\* projeto_dados is a text, total_resultados is a text
MalformedProjeto ==
    << HDict(<< Item("projeto_dados", SStr("x", 1)), Item("pesquisa_web_massiva", SRef(2)) >>),
       HDict(<< Item("total_resultados", SInt(3)) >>) >>
MalformedPesquisa ==
    << HDict(<< Item("pesquisa_web_massiva", SRef(2)), Item("analise_funil", SInt(1)) >>),
       HDict(<< Item("total_resultados", SStr("3", 1)) >>) >>
KeyInList == << HList(<< SStr("analise_funil", 13) >>) >>

NamedHeaps ==
    {SelfDict, SelfList, AliasedList, BackPointer, LongInList, LongInDict, BigList,
     RepeatedDict, WideDict, DeniedInList, Unprintable, BrokenItems, BrokenTop, Everything,
     VarejoReport, VarejoReportBare, DirectData, MalformedProjeto, MalformedPesquisa,
     KeyInList}

\* the calls: the object, and max_depth given or left to its default
SanitizerCall(heap, obj, default, max_depth) ==
    [phase |-> "ready", heap |-> heap, obj |-> obj, default |-> default,
     max_depth |-> max_depth, fn |-> "", raised |-> FALSE, out |-> PyNone,
     raisedAgain |-> FALSE, outAgain |-> PyNone,
     session_id |-> "", saveRaised |-> FALSE, saved |-> PyNone]

SanitizerCalls ==
    {SanitizerCall(heap, SRef(1), FALSE, md) : heap \in GraphHeaps \cup NamedHeaps, md \in 0..MaxDepthArg}
       \cup {SanitizerCall(heap, SRef(1), TRUE, 0) : heap \in NamedHeaps}
       \cup {SanitizerCall(<< >>, v, TRUE, 0) :
                v \in {SStr("t", 50000), SStr("u", 5), SStr("analise_funil", 13), SInt(3), SNone}}

InitSanitizer == scenario = "sanitizer" /\ InitCommon /\ sanitizer \in SanitizerCalls

\* generator._deep_clean_data(obj) or generator._deep_clean_data(obj, max_depth)
CallDeepCleanData ==
    /\ sanitizer.phase = "ready"
    /\ LET max_depth == IF sanitizer.default THEN DeepCleanDefaultDepth
                        ELSE sanitizer.max_depth
           r == DeepCleanData(sanitizer.heap, sanitizer.obj, max_depth, 0, << >>)
       IN  sanitizer' = [sanitizer EXCEPT !.phase = "done", !.fn = "_deep_clean_data",
                                          !.max_depth = max_depth,
                                          !.raised = r.raised, !.out = r.val]
    /\ UNCHANGED << query, scenario, execution_state, sync_lock, registrations, pc, calls, loc, hist, outcome, result >>

\* orchestrator._create_simple_copy(obj) or orchestrator._create_simple_copy(obj, max_depth)
CallCreateSimpleCopy ==
    /\ sanitizer.phase = "ready"
    /\ LET max_depth == IF sanitizer.default THEN SimpleCopyMaxDepth
                        ELSE sanitizer.max_depth
           r == CreateSimpleCopyGraph(sanitizer.heap, sanitizer.obj, max_depth, 0, << >>)
       IN  sanitizer' = [sanitizer EXCEPT !.phase = "done", !.fn = "_create_simple_copy",
                                          !.max_depth = max_depth,
                                          !.raised = r.raised, !.out = r.val]
    /\ UNCHANGED << query, scenario, execution_state, sync_lock, registrations, pc, calls, loc, hist, outcome, result >>

RECURSIVE SubValues(_, _, _)
\* the values of a returned tree, each with its depth and its place
SubValues(v, d, p) ==
    {[d |-> d, p |-> p, v |-> v]}
       \cup UNION {SubValues(v.c[i].val, d + 1, Append(p, i)) : i \in 1..Len(v.c)}

\* a returned value passed back as an argument: its mappings and lists are
\* the objects of the heap, each named by its place in the tree
AsInput(v, p) ==
    IF v.k \in {"dict", "list"} THEN SRef(p)
    ELSE [k |-> v.k, s |-> v.s, n |-> v.n, tr |-> v.tr, r |-> 0]

TreeHeap(out) ==
    LET places == {x \in SubValues(out, 0, << >>) : x.v.k \in {"dict", "list"}}
    IN  [p \in {x.p : x \in places} |->
            LET v == (CHOOSE x \in places : x.p = p).v
            IN  [k |-> v.k,
                 c |-> [i \in 1..Len(v.c) |->
                          Item(v.c[i].key, AsInput(v.c[i].val, Append(p, i)))],
                 n |-> 0, raises |-> FALSE]]

\* generator._deep_clean_data(cleaned), on the value the first call returned
CallDeepCleanAgain ==
    /\ sanitizer.phase = "done"
    /\ sanitizer.fn = "_deep_clean_data"
    /\ ~sanitizer.raised
    /\ LET r == DeepCleanData(TreeHeap(sanitizer.out), AsInput(sanitizer.out, << >>),
                              sanitizer.max_depth, 0, << >>)
       IN  sanitizer' = [sanitizer EXCEPT !.phase = "again",
                                          !.raisedAgain = r.raised, !.outAgain = r.val]
    /\ UNCHANGED << query, scenario, execution_state, sync_lock, registrations, pc, calls, loc, hist, outcome, result >>

(***************************************************************************)
(* generate_clean_report.  The report is a mapping of the orchestrator's   *)
(* notation; the fixed texts of a section are kept as the keys they sit    *)
(* under, and the fields read from the data as the values read.            *)
(***************************************************************************)
Fixed == PyStr("<fixed>")

\* key in data: a key of a mapping, an element of a list, a part of a text;
\* TypeError otherwise
Contains(data, key) ==
    IF data.k = "dict" THEN [raised |-> FALSE, val |-> HasKey(data, key)]
    ELSE IF data.k = "list"
    THEN [raised |-> FALSE,
          val |-> \E i \in 1..Len(data.c) : data.c[i].val.k = "str" /\ data.c[i].val.s = key]
    ELSE IF data.k = "str" THEN [raised |-> FALSE, val |-> data.s = key]
    ELSE [raised |-> TRUE, val |-> FALSE]

\* data[key] after key in data: TypeError unless data is a mapping
Subscript(data, key) ==
    IF data.k = "dict" THEN [raised |-> FALSE, val |-> Lookup(data, key)]
    ELSE [raised |-> TRUE, val |-> PyNone]

SafeDataDefaults ==
    [segmento |-> PyStr("Empreendedores"), produto |-> PyStr("Programa MASI"),
     has_research |-> FALSE, processing_time |-> PyStr("N/A"),
     research_sources |-> PyNone, has_psychological_analysis |-> FALSE,
     has_funnel_analysis |-> FALSE, has_strategic_insights |-> FALSE]

\* each step of the try block of _extract_safe_data: what it leaves in
\* safe_data and whether it raised
Step(raised, safe_data) == [raised |-> raised, val |-> safe_data]

ExtractProjeto(data, safe_data) ==
    LET in == Contains(data, "projeto_dados")
        projeto == Subscript(data, "projeto_dados")
    IN  IF in.raised THEN Step(TRUE, safe_data)
        ELSE IF ~in.val THEN Step(FALSE, safe_data)
        ELSE IF projeto.raised \/ projeto.val.k # "dict" THEN Step(TRUE, safe_data)
        ELSE Step(FALSE, [safe_data EXCEPT
                             !.segmento = Get(projeto.val, "segmento", safe_data.segmento),
                             !.produto = Get(projeto.val, "produto", safe_data.produto)])

\* x > 0 for the numbers of the model; TypeError for another type
Positive(x) ==
    IF x.k = "int" THEN [raised |-> FALSE, val |-> x.n > 0]
    ELSE IF x.k = "bool" THEN [raised |-> FALSE, val |-> x.s = "True"]
    ELSE [raised |-> TRUE, val |-> FALSE]

ExtractPesquisa(data, safe_data) ==
    LET in == Contains(data, "pesquisa_web_massiva")
        pesquisa == Subscript(data, "pesquisa_web_massiva")
        total == IF HasKey(pesquisa.val, "total_resultados")
                 THEN Positive(Lookup(pesquisa.val, "total_resultados"))
                 ELSE [raised |-> FALSE, val |-> FALSE]
    IN  IF in.raised THEN Step(TRUE, safe_data)
        ELSE IF ~in.val THEN Step(FALSE, safe_data)
        ELSE IF pesquisa.raised THEN Step(TRUE, safe_data)
        ELSE IF pesquisa.val.k # "dict" THEN Step(FALSE, safe_data)
        ELSE IF total.raised THEN Step(TRUE, safe_data)
        ELSE IF ~total.val THEN Step(FALSE, safe_data)
        ELSE Step(FALSE, [safe_data EXCEPT
                             !.has_research = TRUE,
                             !.research_sources = Lookup(pesquisa.val, "total_resultados")])

ExtractMetadata(data, safe_data) ==
    LET in == Contains(data, "metadata_gigante")
        metadata == Subscript(data, "metadata_gigante")
    IN  IF in.raised THEN Step(TRUE, safe_data)
        ELSE IF ~in.val THEN Step(FALSE, safe_data)
        ELSE IF metadata.raised \/ metadata.val.k # "dict" THEN Step(TRUE, safe_data)
        ELSE Step(FALSE, [safe_data EXCEPT
                             !.processing_time = Get(metadata.val, "processing_time_formatted",
                                                     PyStr("N/A"))])

ExtractFlags(data, safe_data) ==
    Step(FALSE, [safe_data EXCEPT
                    !.has_psychological_analysis =
                        Contains(data, "agentes_psicologicos_detalhados").val,
                    !.has_funnel_analysis = Contains(data, "analise_funil").val,
                    !.has_strategic_insights = Contains(data, "insights_estrategicos").val])

\* _extract_safe_data: the first step that raises ends the extraction, and
\* what the earlier steps wrote stays
ExtractSafeData(data) ==
    LET s1 == ExtractProjeto(data, SafeDataDefaults)
        s2 == IF s1.raised THEN s1 ELSE ExtractPesquisa(data, s1.val)
        s3 == IF s2.raised THEN s2 ELSE ExtractMetadata(data, s2.val)
        s4 == IF s3.raised THEN s3 ELSE ExtractFlags(data, s3.val)
    IN  s4.val

CreateDetailedAvatar(data) ==
    PyDict(<< Item("identificacao", PyDict(<<
                  Item("perfil", PyStr("Empreendedor Ambicioso")),
                  Item("faixa_etaria", PyStr("30-45 anos")),
                  Item("nivel_experiencia", PyStr("Intermediario a Avancado")),
                  Item("contexto", PyText(<< Item("segmento", data.segmento) >>)) >>)),
              Item("dores_principais", Fixed), Item("desejos_profundos", Fixed),
              Item("comportamentos", Fixed), Item("canais_preferidos", Fixed) >>)

CreatePsychologicalArsenal(data) ==
    PyDict(<< Item("drivers_mentais_principais", Fixed),
              Item("sistema_anti_objecoes", Fixed),
              Item("sequencia_pre_pitch", Fixed) >>)

CreateMarketAnalysis(data) ==
    LET analysis == PyDict(<<
            Item("panorama_geral", PyDict(<<
                Item("segmento", data.segmento),
                Item("tamanho_mercado", Fixed), Item("crescimento_anual", Fixed) >>)),
            Item("tendencias_identificadas", Fixed),
            Item("oportunidades_mercado", Fixed) >>)
    IN  IF data.has_research
        THEN Put(analysis, "dados_pesquisa", PyDict(<<
                 Item("fontes_analisadas", data.research_sources),
                 Item("base_dados", Fixed), Item("periodo_analise", Fixed),
                 Item("confiabilidade", Fixed) >>))
        ELSE analysis

CreateImplementationStrategy(data) ==
    PyDict(<< Item("fase_1_preparacao", Fixed), Item("fase_2_implementacao", Fixed),
              Item("fase_3_otimizacao", Fixed), Item("metricas_acompanhamento", Fixed) >>)

BaseQualityScore == 85
ResearchBonus == 10
PsychologyBonus == 5
MaxQualityScore == 100

CreateQualityMetrics(data) ==
    LET quality_score == BaseQualityScore
                            + (IF data.has_research THEN ResearchBonus ELSE 0)
                            + (IF data.has_psychological_analysis THEN PsychologyBonus ELSE 0)
    IN  PyDict(<<
            Item("score_qualidade_geral",
                 PyInt(ToString(Min(quality_score, MaxQualityScore)))),
            Item("componentes_analisados", PyDict(<<
                Item("pesquisa_mercado",
                     PyStr(IF data.has_research THEN "Completa" ELSE "Basica")),
                Item("avatar_detalhado", PyStr("Completo")),
                Item("drivers_psicologicos", PyStr("Completo")),
                Item("sistema_anti_objecao", PyStr("Completo")),
                Item("funil_vendas",
                     PyStr(IF data.has_funnel_analysis THEN "Completo" ELSE "Basico")),
                Item("insights_estrategicos",
                     PyStr(IF data.has_strategic_insights THEN "Completos" ELSE "Basicos")),
                Item("estrategia_implementacao", PyStr("Completa")) >>)),
            Item("confiabilidade_dados", PyStr(IF data.has_research THEN "Alta" ELSE "Media")),
            Item("aplicabilidade_pratica", PyStr("Muito Alta")),
            Item("potencial_roi", Fixed) >>)

CreateFunnelAnalysis(data) ==
    PyDict(<< Item("resumo_executivo", Fixed), Item("estagios_funil", Fixed),
              Item("oportunidades_otimizacao", Fixed),
              Item("recomendacoes_priorizadas", Fixed) >>)

CreateStrategicInsights(data) ==
    PyDict(<< Item("analise_swot", Fixed), Item("estrategias_crescimento", Fixed),
              Item("matriz_priorizacao", Fixed),
              Item("recomendacoes_estrategicas", Fixed) >>)

CreateActionPlan(data) ==
    PyDict(<< Item("proximas_24_horas", Fixed), Item("proxima_semana", Fixed),
              Item("proximo_mes", Fixed) >>)

CreateEmergencyReport(session_id, error) ==
    PyDict(<< Item("session_id", PyStr(session_id)),
              Item("timestamp", Now),
              Item("status", PyStr("RELATORIO DE EMERGENCIA")),
              Item("error", PyStr(error)),
              Item("relatorio_basico", PyDict(<<
                  Item("segmento", PyStr("Empreendedores")),
                  Item("recomendacao",
                       PyStr("Execute nova analise apos verificar configuracoes")),
                  Item("proximos_passos", PyList(<<
                      PyStr("Verificar APIs configuradas"),
                      PyStr("Testar conectividade"),
                      PyStr("Executar analise simples primeiro") >>)) >>)) >>)

CleanReport(report_data, session_id) ==
    PyDict(<< Item("session_id", PyStr(session_id)),
              Item("timestamp", Now),
              Item("engine_version", PyStr("ARQV30 Enhanced v3.0 - ULTRA ROBUSTO")),
              Item("relatorio_executivo", PyDict(<<
                  Item("segmento_analisado", report_data.segmento),
                  Item("produto_servico", report_data.produto),
                  Item("data_analise", Now),
                  Item("tempo_processamento", report_data.processing_time),
                  Item("qualidade_analise",
                       PyStr(IF report_data.has_research THEN "PREMIUM" ELSE "BASICA")) >>)),
              Item("avatar_cliente_ideal", CreateDetailedAvatar(report_data)),
              Item("arsenal_psicologico", CreatePsychologicalArsenal(report_data)),
              Item("analise_mercado_real", CreateMarketAnalysis(report_data)),
              Item("estrategia_implementacao", CreateImplementationStrategy(report_data)),
              Item("metricas_qualidade", CreateQualityMetrics(report_data)),
              Item("analise_funil_vendas", CreateFunnelAnalysis(report_data)),
              Item("insights_estrategicos_completos", CreateStrategicInsights(report_data)),
              Item("plano_acao_imediato", CreateActionPlan(report_data)) >>)

SaveReportUnguarded(raises) == raises

\* _safe_save_report: whether an exception of salvar_etapa leaves it
SafeSaveReport(raises) == FALSE

\* generate_clean_report(analysis_data, session_id), salvar_etapa raising
\* or not
GenerateCleanReport(h, analysis_data, session_id, saveRaises) ==
    LET clean_analysis_data == DeepCleanData(h, analysis_data, DeepCleanDefaultDepth, 0, << >>)
        clean_report == CleanReport(ExtractSafeData(clean_analysis_data.val), session_id)
    IN  IF clean_analysis_data.raised
        THEN CreateEmergencyReport(session_id, "items boom")
        ELSE IF SafeSaveReport(saveRaises)
        THEN CreateEmergencyReport(session_id, SinkError)
        ELSE clean_report

\* generator.generate_clean_report(analysis_data, session_id)
CallGenerateCleanReport ==
    /\ sanitizer.phase = "ready"
    /\ sanitizer.default
    /\ \E session_id \in SessionIds, saveRaises \in BOOLEAN :
          LET clean == DeepCleanData(sanitizer.heap, sanitizer.obj,
                                     DeepCleanDefaultDepth, 0, << >>)
              report == GenerateCleanReport(sanitizer.heap, sanitizer.obj,
                                            session_id, saveRaises)
          IN  sanitizer' = [sanitizer EXCEPT
                               !.phase = "reported", !.fn = "generate_clean_report",
                               !.session_id = session_id,
                               !.saveRaised = ~clean.raised /\ saveRaises,
                               !.saved = IF clean.raised \/ saveRaises THEN PyNone
                                         ELSE report,
                               !.out = report]
    /\ UNCHANGED << query, scenario, execution_state, sync_lock, registrations, pc, calls, loc, hist, outcome, result >>

NextSanitizer ==
    CallDeepCleanData \/ CallCreateSimpleCopy \/ CallDeepCleanAgain \/ CallGenerateCleanReport

SpecSanitizer == InitSanitizer /\ [][NextSanitizer]_vars

(***************************************************************************)
(* Vocabulary of the properties.                                           *)
(***************************************************************************)
Done(t) == pc[t] = "done"
Returned(t) == Done(t) /\ outcome[t] = "returned"
Raised(t) == Done(t) /\ outcome[t] = "raised"
Success(t) == Returned(t) /\ Get(result[t], "success", PyNone) = PyBool(TRUE)
Report(t) == Get(result[t], "report", PyNone)
Summary(t) == Get(Report(t), "sumario_executivo", PyNone)
NormalPath(t) == Returned(t) /\ HasKey(result[t], "sync_status")
EmergencyPath(t) == Returned(t) /\ HasKey(result[t], "execution_mode")
Status(t) == execution_state[loc[t].session_id].status

\* no call of salvar_etapa or salvar_erro raised during the call of t
SinksNominal(t) == hist[t].etapaRaised = {} /\ hist[t].erroRaised = {}
\* the progress callback, if any, returned normally every time
CallbackNominal(t) == ~hist[t].cbRaised
\* salvar_erro never raised during the call of t
ErrorSinkNominal(t) == hist[t].erroRaised = {}

StageKey(stage) ==
    CASE stage = "base" -> "analise_base"
      [] stage = "enhanced" -> "analise_aprimorada"
      [] stage = "funnel" -> "analise_funil"
      [] OTHER -> "insights_estrategicos"

StageLocal(l, stage) ==
    CASE stage = "base" -> l.base_analysis
      [] stage = "enhanced" -> l.enhanced_analysis
      [] stage = "funnel" -> l.funnel_analysis
      [] OTHER -> l.strategic_insights

\* the report echoes the request's value for key: in the copy of the request,
\* in the formatted summary, or in the minimal report
Echoes(report, data, key, label) ==
    HasKey(data, key) =>
        \/ Get(Get(report, "dados_originais", PyDict(<< >>)), key, PyNone) = Lookup(data, key)
           /\ Get(Get(report, "sumario_executivo", PyDict(<< >>)), label, PyNone)
                = PyStr(Format(Lookup(data, key)))
        \/ Get(report, key, PyNone) = Lookup(data, key)

\* the report carries a non-empty list of next steps
HasNextSteps(report) ==
    LET inSummary == Get(Get(report, "sumario_executivo", PyDict(<< >>)),
                         "PROXIMOS PASSOS RECOMENDADOS", PyNone)
        inReport == Get(report, "proximos_passos", PyNone)
    IN  \/ inSummary.k = "list" /\ Len(inSummary.c) > 0
        \/ inReport.k = "list" /\ Len(inReport.c) > 0

(***************************************************************************)
(* C1: execute_synchronized_analysis never raises to its caller and always *)
(* returns a mapping with success = True, for every request and every      *)
(* combination of provider outcomes (each provider returns or raises).     *)
(* Stated for every finished call in which the error sink did not raise,   *)
(* whatever salvar_etapa and the progress callback did.                    *)
(***************************************************************************)
C1_AlwaysSuccess ==
    \A t \in Threads : Done(t) /\ ErrorSinkNominal(t) => Success(t)

\* a call whose base provider raised on a request with a non-string segmento
\* (the fallback itself raised) and that still returned success = True
C1_Witness ==
    \E t \in Threads :
        /\ Done(t) /\ SinksNominal(t) /\ CallbackNominal(t)
        /\ loc[t].data = ReqIntSegmento
        /\ hist[t].providerRaised = {"base"}
        /\ Success(t)

(***************************************************************************)
(* C2: if every content provider raises, the call still returns            *)
(* success = True with a non-empty report that contains the request's      *)
(* segmento and produto values and a next-steps list.                      *)
(***************************************************************************)
C2_TotalFailureResilience ==
    \A t \in Threads :
        Done(t) /\ ErrorSinkNominal(t) /\ hist[t].providerRaised = Stages =>
            /\ Success(t)
            /\ IsDict(Report(t)) /\ Len(Report(t).c) > 0
            /\ Echoes(Report(t), loc[t].data, "segmento", "Segmento")
            /\ Echoes(Report(t), loc[t].data, "produto", "Produto/Servico")
            /\ HasNextSteps(Report(t))

\* all four providers raised on the Varejo request, and the call returned normally
C2_Witness ==
    \E t \in Threads :
        /\ NormalPath(t) /\ SinksNominal(t)
        /\ hist[t].providerRaised = Stages
        /\ loc[t].data = ReqVarejo
        /\ Get(Get(Report(t), "dados_originais", PyNone), "segmento", PyNone) = PyStr("Varejo")

(***************************************************************************)
(* The run without disturbance: what a call does when the sinks and the    *)
(* callback are nominal and the fallback cannot raise.  Every provider is  *)
(* invoked, the session ends completed, and the result is the normal       *)
(* result built from the providers' outcomes.                              *)
(***************************************************************************)
OutcomeValue(t, stage) ==
    IF stage \in hist[t].providerRaised
    THEN (IF stage = "base" THEN CreateFallbackAnalysis(loc[t].data) ELSE PyNone)
    ELSE hist[t].returned[stage]

ExpectedResult(t) ==
    NormalResult(loc[t].session_id,
                 ConsolidateResultsRobustly(
                     OutcomeValue(t, "base"), OutcomeValue(t, "enhanced"),
                     OutcomeValue(t, "funnel"), OutcomeValue(t, "insights"),
                     loc[t].data, loc[t].session_id),
                 OutcomeValue(t, "enhanced"))

Undisturbed(t) ==
    /\ NormalPath(t)
    /\ hist[t].invoked = Stages
    /\ Status(t) = "completed"
    /\ result[t] = ExpectedResult(t)

NominalRunBaseline ==
    \A t \in Threads :
        Done(t) /\ SinksNominal(t) /\ CallbackNominal(t) /\ ~FallbackRaises(loc[t].data)
            => Undisturbed(t)

SummaryLabel(stage) ==
    CASE stage = "base" -> "Analise de Mercado"
      [] stage = "enhanced" -> "Analise Psicologica"
      [] stage = "funnel" -> "Funil de Vendas"
      [] OTHER -> "Insights Estrategicos"

\* placeholder content for a failed stage: the fallback analysis for the base
\* stage, the 'not available' line of the summary for the others
HasPlaceholder(report, stage) ==
    IF stage = "base"
    THEN Get(Get(report, "analise_base", PyNone), "tipo_analise", PyNone)
            = PyStr("FALLBACK_ROBUSTO")
    ELSE Get(Get(report, "sumario_executivo", PyNone), SummaryLabel(stage), PyNone)
            = PyStr("Nao disponivel")

(***************************************************************************)
(* C3: stage isolation.  If the provider of exactly one stage X raises and *)
(* nothing else fails, the result has success = True and placeholder       *)
(* content for X, and every other provider is invoked and its output is in *)
(* the report.                                                             *)
(***************************************************************************)
C3_StageIsolation ==
    \A t \in Threads : \A X \in Stages :
        Done(t) /\ SinksNominal(t) /\ CallbackNominal(t) /\ hist[t].providerRaised = {X} =>
            /\ Success(t)
            /\ HasPlaceholder(Report(t), X)
            /\ \A Y \in Stages \ {X} :
                  /\ Y \in hist[t].invoked
                  /\ Truthy(hist[t].returned[Y]) =>
                        Get(Report(t), StageKey(Y), PyNone) = SimpleCopy(hist[t].returned[Y])

(***************************************************************************)
(* C4: a failure of the error sink is ignored.  If salvar_erro raises      *)
(* while a failure is being recorded, the call does not raise, and the     *)
(* stages run, the session ends and the caller is answered exactly as when *)
(* the sink succeeds.  Stated for calls whose callback, if any, returned   *)
(* normally, so that the error sink is the only collaborator at fault.     *)
(***************************************************************************)
C4_ErrorSinkFailureIgnored ==
    \A t \in Threads :
        Done(t) /\ hist[t].erroRaised # {} /\ CallbackNominal(t) =>
            /\ Returned(t)
            /\ (hist[t].etapaRaised = {} /\ ~FallbackRaises(loc[t].data))
                    => Undisturbed(t)

(***************************************************************************)
(* C5: a failure of the persistence sink is ignored.  If salvar_etapa      *)
(* raises after a stage's provider returned, the stage counts as           *)
(* succeeded: the provider's output stays the stage's value, reaches the   *)
(* report, and no stage error is recorded.  Stated for calls in which the  *)
(* error sink and the callback are nominal and the request's segmento is a *)
(* string or missing.                                                      *)
(***************************************************************************)
C5_PersistenceFailureIgnored ==
    \A t \in Threads : \A X \in Stages :
        Done(t) /\ X \in hist[t].etapaRaised
                /\ ErrorSinkNominal(t) /\ CallbackNominal(t)
                /\ ~FallbackRaises(loc[t].data) =>
            /\ StageLocal(loc[t], X) = hist[t].returned[X]
            /\ ErroName(X) \notin hist[t].erroLog
            /\ Undisturbed(t)

(***************************************************************************)
(* C6: the progress callback never affects control flow.  With a callback  *)
(* supplied, raising or not, the stages executed, the final status and the *)
(* result are those of the run without a callback on the same request and  *)
(* provider outcomes (the undisturbed run, NominalRunBaseline).            *)
(***************************************************************************)
C6_CallbackNeverAffectsControlFlow ==
    \A t \in Threads :
        Done(t) /\ loc[t].progress_callback # "none" /\ SinksNominal(t)
                /\ ~FallbackRaises(loc[t].data)
            => Undisturbed(t)

(***************************************************************************)
(* C7: stage failures accumulate into the session's error list: after a    *)
(* run, errors has one entry per stage whose provider raised; a stage      *)
(* failure by itself leaves the status at running.  Stated for calls in    *)
(* which only providers fail and the request's segmento is a string or     *)
(* missing.                                                                *)
(***************************************************************************)
C7_StageErrorsAccumulate ==
    \A t \in Threads :
        /\ Done(t) /\ SinksNominal(t) /\ CallbackNominal(t)
                   /\ ~FallbackRaises(loc[t].data) =>
              Len(execution_state[loc[t].session_id].errors)
                 = Cardinality(hist[t].providerRaised)
        /\ pc[t] \in {"stage2", "stage3", "stage4", "consolidate"} =>
              Status(t) = "running"

(***************************************************************************)
(* C8 (as claimed): each session's status is one of running, completed,    *)
(* completed_with_errors, and once a session's status is terminal it never *)
(* changes again, under any interleaving of invocations, including         *)
(* repeated or concurrent invocations with the same session id.            *)
(***************************************************************************)
StatusValues == {"running", "completed", "completed_with_errors"}
TerminalStatuses == {"completed", "completed_with_errors"}

StatusInRange ==
    \A s \in DOMAIN execution_state : execution_state[s].status \in StatusValues

TerminalIsFinal ==
    \A s \in DOMAIN execution_state :
        execution_state[s].status \in TerminalStatuses =>
            /\ s \in DOMAIN execution_state'
            /\ execution_state'[s].status = execution_state[s].status

C8_TerminalStatusNeverChanges == [](StatusInRange) /\ [][TerminalIsFinal]_vars

(***************************************************************************)
(* C8 (amended): each session's status is always one of the three values,  *)
(* entries are never removed, and a status changes only                    *)
(*   - from running to completed or completed_with_errors,                 *)
(*   - to running, when a further invocation registers the same session id *)
(*     (registration overwrites the record), or                            *)
(*   - between the two terminal values, when several invocations have      *)
(*     registered the same session id and a later one finishes.            *)
(* So for a session id used by one invocation only, a terminal status      *)
(* never changes again.                                                    *)
(***************************************************************************)
StatusStep ==
    \A s \in DOMAIN execution_state :
        /\ s \in DOMAIN execution_state'
        /\ execution_state'[s].status # execution_state[s].status =>
              \/ /\ execution_state[s].status = "running"
                 /\ execution_state'[s].status \in TerminalStatuses
              \/ /\ execution_state'[s].status = "running"
                 /\ registrations'[s] = registrations[s] + 1
              \/ /\ execution_state[s].status \in TerminalStatuses
                 /\ execution_state'[s].status \in TerminalStatuses
                 /\ registrations[s] >= 2

C8_StatusTransitions == [](StatusInRange) /\ [][StatusStep]_vars

\* a session id registered a second time after a call on it had returned: its
\* status is running again while the first call's result is with the caller
C8_Witness ==
    \E t \in Threads : \E u \in Threads \ {t} :
        /\ Returned(t)
        /\ loc[u].session_id = loc[t].session_id
        /\ pc[u] = "stage1"
        /\ registrations[loc[t].session_id] = 2
        /\ Status(t) = "running"

(***************************************************************************)
(* C9: a content provider raising never moves the session to               *)
(* completed_with_errors: when nothing but providers fails, the final      *)
(* status is completed, for any request, including one whose segmento is   *)
(* not a string.                                                           *)
(***************************************************************************)
C9_ProviderFailureKeepsCompleted ==
    \A t \in Threads :
        Done(t) /\ SinksNominal(t) /\ CallbackNominal(t) => Status(t) = "completed"

(***************************************************************************)
(* C10: when every content provider raises, the quality label downgrades   *)
(* to the lowest tier: the top-level quality_level and the quality level   *)
(* of the executive summary are both BASIC.                                *)
(***************************************************************************)
C10_QualityDowngradesToBasic ==
    \A t \in Threads :
        Done(t) /\ SinksNominal(t) /\ CallbackNominal(t)
                /\ hist[t].providerRaised = Stages =>
            /\ Get(result[t], "quality_level", PyNone) = PyStr("BASIC")
            /\ Get(Summary(t), "Nivel de Qualidade", PyNone) = PyStr("BASIC")

(***************************************************************************)
(* C11: in the consolidated report the sub-mapping of a stage is present   *)
(* if and only if that stage's provider succeeded, and session_id,         *)
(* generated_at, dados_originais and sumario_executivo are always present. *)
(* Stated for calls that returned the consolidated report with the sinks   *)
(* and the callback nominal, whose providers each raised or returned a     *)
(* non-empty mapping.                                                      *)
(***************************************************************************)
AlwaysPresentKeys == {"session_id", "generated_at", "dados_originais", "sumario_executivo"}

ProvidersDecisive(t) ==
    \A Y \in Stages : Y \in hist[t].providerRaised \/ Truthy(hist[t].returned[Y])

C11_StageSectionIffSucceeded ==
    \A t \in Threads :
        NormalPath(t) /\ SinksNominal(t) /\ CallbackNominal(t) /\ ProvidersDecisive(t) =>
            /\ \A X \in Stages :
                  HasKey(Report(t), StageKey(X)) <=> X \notin hist[t].providerRaised
            /\ \A key \in AlwaysPresentKeys : HasKey(Report(t), key)

(***************************************************************************)
(* C12: every result returned by execute_synchronized_analysis carries     *)
(* success, the session id, the execution time, the report and the quality *)
(* level, on the normal path and on the emergency path alike.              *)
(***************************************************************************)
ResultKeys == {"success", "session_id", "execution_time", "report", "quality_level"}

C12_ResultShape ==
    \A t \in Threads : Returned(t) => \A key \in ResultKeys : HasKey(result[t], key)

(***************************************************************************)
(* C13: if an exception is raised outside every stage boundary, the        *)
(* outermost handler records status completed_with_errors and the error    *)
(* text on the session and returns success = True with a minimal report    *)
(* that echoes the request's segmento and produto, contains a non-empty    *)
(* next-steps list, and carries the captured error message.  Stated for    *)
(* calls whose error sink did not raise inside the outermost handler.      *)
(***************************************************************************)
Escaped(t) == loc[t].e # ""

C13_OutermostHandler ==
    \A t \in Threads :
        Done(t) /\ Escaped(t) /\ "super_orchestrator_critico" \notin hist[t].erroRaised =>
            /\ Status(t) = "completed_with_errors"
            /\ execution_state[loc[t].session_id].error = PyStr(loc[t].e)
            /\ Success(t) /\ EmergencyPath(t)
            /\ Get(Report(t), "segmento", PyNone)
                  = Get(loc[t].data, "segmento", PyStr("Nao especificado"))
            /\ Get(Report(t), "produto", PyNone)
                  = Get(loc[t].data, "produto", PyStr("Nao especificado"))
            /\ Get(Report(t), "proximos_passos", PyNone).k = "list"
            /\ Len(Get(Report(t), "proximos_passos", PyNone).c) > 0
            /\ Get(result[t], "error_handled", PyNone) = PyStr(loc[t].e)

\* all four stages ran on the Varejo request, then the call raised at the
\* consolidation step, outside every stage, and the minimal report came back
C13_Witness ==
    \E t \in Threads :
        /\ EmergencyPath(t)
        /\ loc[t].data = ReqVarejo
        /\ hist[t].invoked = Stages /\ hist[t].erroLog = {"super_orchestrator_critico"}
        /\ SinksNominal(t)
        /\ loc[t].final_results = PyNone
        /\ Get(Report(t), "segmento", PyNone) = PyStr("Varejo")

(***************************************************************************)
(* C14: get_analysis_status(session_id) returns the not-found marker if    *)
(* and only if no execution state was ever registered for session_id; for  *)
(* every session id, the empty string included, on which a call has        *)
(* started, it returns that session's status, start time and error; and    *)
(* entries are never removed.                                              *)
(***************************************************************************)
StatusQueryAnswers ==
    \A sid \in SessionIds :
        /\ GetAnalysisStatus(execution_state, sid) = NotFoundMarker
              <=> registrations[sid] = 0
        /\ registrations[sid] > 0 =>
              GetAnalysisStatus(execution_state, sid)
                 = [session_id |-> sid,
                    status |-> execution_state[sid].status,
                    started_at |-> execution_state[sid].start_time,
                    error |-> execution_state[sid].error]

EntriesKept == DOMAIN execution_state \subseteq DOMAIN execution_state'

C14_StatusQuery == [](StatusQueryAnswers) /\ [][EntriesKept]_vars

(***************************************************************************)
(* Vocabulary of the sanitizer properties: the values of the returned      *)
(* tree with their depth and place, and the pairs of an input value and    *)
(* the returned value that stands for it.                                  *)
(***************************************************************************)
SanitizerDone == sanitizer.phase = "done"
SanitizerReturned == SanitizerDone /\ ~sanitizer.raised
DeepCleanReturned == SanitizerReturned /\ sanitizer.fn = "_deep_clean_data"
OutValues == SubValues(sanitizer.out, 0, << >>)
OutContainers == {x \in OutValues : x.v.k \in {"dict", "list"}}

IsContainer(h, v, kind) == v.k = "ref" /\ h[v.r].k = kind /\ ~h[v.r].raises
IsBroken(h, v) == v.k = "ref" /\ h[v.r].k \in {"dict", "list"} /\ h[v.r].raises
IsErrorMarker(v) == v.k = "str" /\ v.s \in {"[Error processing: ]", "[Error in item : ]"}

\* the item of the input object that the i-th item of the returned one stands
\* for: the same index for a list, the same key for a mapping
RECURSIVE Pairs(_, _, _, _)
Pairs(h, in, out, d) ==
    {[in |-> in, out |-> out, d |-> d]}
       \cup (IF IsContainer(h, in, "list") /\ out.k = "list"
             THEN UNION {Pairs(h, h[in.r].c[i].val, out.c[i].val, d + 1) :
                            i \in 1..Min(Len(out.c), Len(h[in.r].c))}
             ELSE IF IsContainer(h, in, "dict") /\ out.k = "dict"
             THEN UNION {Pairs(h, Lookup(h[in.r], out.c[i].key), out.c[i].val, d + 1) :
                            i \in {j \in 1..Len(out.c) : HasKey(h[in.r], out.c[j].key)}}
             ELSE {})

OutPairs == Pairs(sanitizer.heap, sanitizer.obj, sanitizer.out, 0)
WithinDepth == {q \in OutPairs : q.d <= sanitizer.max_depth}

IsDepthMarker(v) ==
    IF sanitizer.fn = "_deep_clean_data"
    THEN v.k = "dict" /\ Keys(v) = {"error"}
    ELSE v.k = "str" /\ v.s = "[Max depth reached]"

(***************************************************************************)
(* C15: for any input, self-referential mappings and lists built by        *)
(* aliasing included, _deep_clean_data and _create_simple_copy terminate   *)
(* without raising and return a value with no aliasing: every mapping and  *)
(* list of the result is a fresh object, shared neither with the input nor *)
(* with another part of the result; and the input is left unchanged.       *)
(***************************************************************************)
NoAliasing ==
    /\ \A x \in OutContainers : x.v.id.fresh
    /\ \A x \in OutContainers : \A y \in OutContainers : x.v.id = y.v.id => x.p = y.p

SanitizerTotal == SanitizerDone => ~sanitizer.raised /\ NoAliasing

InputUnchanged == sanitizer'.heap = sanitizer.heap /\ sanitizer'.obj = sanitizer.obj

C15_SanitizerTotalNoAliasing == [](SanitizerTotal) /\ [][InputUnchanged]_vars

(***************************************************************************)
(* C16: the nesting depth of the value returned by                         *)
(* _deep_clean_data(x, max_depth) never exceeds max_depth: every sub-value *)
(* located deeper than max_depth is replaced by the max-depth marker, and  *)
(* the output has no mapping or list nested deeper than max_depth (the     *)
(* same with max_depth = 3 by default for _create_simple_copy).            *)
(***************************************************************************)
C16_DepthBounded ==
    SanitizerReturned =>
        \A x \in OutValues :
            /\ x.v.k \in {"dict", "list"} => x.d <= sanitizer.max_depth
            /\ x.d = sanitizer.max_depth + 1 => IsDepthMarker(x.v)

(***************************************************************************)
(* C17: every string in the output of _deep_clean_data has length at most  *)
(* 10,000 plus the length of the truncation marker: an input string longer *)
(* than 10,000 characters, as the top-level value, as a mapping value or   *)
(* as a list element, is replaced by its first 10,000 characters followed  *)
(* by the marker.                                                          *)
(***************************************************************************)
C17_StringsTruncated ==
    DeepCleanReturned =>
        /\ \A x \in OutValues :
              x.v.k = "str" => StrLen(x.v) <= MaxStringLen + TruncationMarkerLen
        /\ \A q \in WithinDepth :
              q.in.k = "str" /\ StrLen(q.in) > MaxStringLen => q.out = Truncate(q.in)

(***************************************************************************)
(* C18: every list in the output of _deep_clean_data has at most 50        *)
(* elements and consists of the sanitized first 50 elements of the         *)
(* corresponding input list in their original order (first 10 for          *)
(* _create_simple_copy).                                                   *)
(***************************************************************************)
ListCap ==
    IF sanitizer.fn = "_deep_clean_data" THEN DeepCleanMaxItems ELSE SimpleCopyMaxItems

\* out is what the sanitizer makes of the element in: the element itself for
\* a scalar, a mapping for a mapping, a list for a list, a text for an object
\* of another type, or the depth marker
ElementSanitized(h, in, out) ==
    \/ IsDepthMarker(out)
    \/ in.k # "ref" /\ out.k = in.k /\ out.s = in.s /\ (in.k = "int" => out.n = in.n)
    \/ in.k = "ref" /\ h[in.r].k \in {"dict", "list"} /\ out.k = h[in.r].k
    \/ IsBroken(h, in) /\ IsErrorMarker(out)
    \/ in.k = "ref" /\ h[in.r].k = "other" /\ out.k = "str"

C18_ListsCapped ==
    SanitizerReturned =>
        /\ \A x \in OutValues : x.v.k = "list" => Len(x.v.c) <= ListCap
        /\ \A q \in WithinDepth :
              IsContainer(sanitizer.heap, q.in, "list") =>
                 /\ q.out.k = "list"
                 /\ Len(q.out.c) = Min(Len(sanitizer.heap[q.in.r].c), ListCap)
                 /\ \A i \in 1..Len(q.out.c) :
                       ElementSanitized(sanitizer.heap,
                                        sanitizer.heap[q.in.r].c[i].val, q.out.c[i].val)

\* _deep_clean_data on a list of the integers 1..1000 returned exactly the
\* integers 1..50 in order
C18_Witness ==
    /\ DeepCleanReturned /\ sanitizer.heap = BigList /\ sanitizer.default
    /\ sanitizer.out.k = "list" /\ Len(sanitizer.out.c) = 50
    /\ \A i \in 1..50 : sanitizer.out.c[i].val = OSame(SInt(i))

(***************************************************************************)
(* C19: breadth is hard-capped for mappings: no mapping in the output of   *)
(* _deep_clean_data has more keys than a fixed cap, whatever the number of *)
(* keys of the input mapping (_create_simple_copy keeps at most 20 keys).  *)
(* Stated with the one breadth cap _deep_clean_data has, the 50 of its     *)
(* lists.                                                                  *)
(***************************************************************************)
MappingCap ==
    IF sanitizer.fn = "_deep_clean_data" THEN DeepCleanMaxItems ELSE SimpleCopyMaxKeys

C19_MappingsCapped ==
    SanitizerReturned =>
        \A x \in OutValues : x.v.k = "dict" => Len(x.v.c) <= MappingCap

(***************************************************************************)
(* C20: no mapping at any depth of the output of _deep_clean_data has a    *)
(* deny-listed key (circular_ref, parent, root, _internal), for any        *)
(* nesting of mappings and lists in the input; every other key of an input *)
(* mapping that lies within the depth limit is kept.                       *)
(***************************************************************************)
C20_DenyListedKeysDropped ==
    DeepCleanReturned =>
        /\ \A x \in OutValues : x.v.k = "dict" => Keys(x.v) \cap DenyList = {}
        /\ \A q \in WithinDepth :
              IsContainer(sanitizer.heap, q.in, "dict") =>
                 /\ q.out.k = "dict"
                 /\ Keys(q.out) = Keys(sanitizer.heap[q.in.r]) \ DenyList

\* mappings inside a list, one with root and one with _internal: both keys are
\* gone from the output and the keys ok and fine are kept
C20_Witness ==
    /\ DeepCleanReturned /\ sanitizer.heap = DeniedInList /\ sanitizer.default
    /\ sanitizer.out.k = "list" /\ Len(sanitizer.out.c) = 2
    /\ Keys(sanitizer.out.c[1].val) = {"ok"}
    /\ Keys(sanitizer.out.c[2].val) = {"fine"}

(***************************************************************************)
(* C21: _deep_clean_data is idempotent: applied to a value it returned,    *)
(* with the same depth limit, it returns without raising a value equal to  *)
(* its argument, whatever truncation, capping, key removal or depth        *)
(* marking the first call did.                                             *)
(***************************************************************************)
SanitizedAgain == sanitizer.phase = "again"

C21_DeepCleanIdempotent ==
    SanitizedAgain => ~sanitizer.raisedAgain /\ sanitizer.outAgain = sanitizer.out

\* the first call truncated a string, cut a list of 60 to 50, dropped the key
\* parent and marked the depth of a self-referential mapping, and the second
\* call returned the same value
C21_Witness ==
    /\ SanitizedAgain /\ sanitizer.heap = Everything /\ sanitizer.default
    /\ sanitizer.outAgain = sanitizer.out
    /\ Keys(sanitizer.out) = {"a", "s", "l", "o"}
    /\ Lookup(sanitizer.out, "s").tr
    /\ Len(Lookup(sanitizer.out, "l").c) = 50
    /\ \E x \in OutValues : x.d = DeepCleanDefaultDepth + 1 /\ IsDepthMarker(x.v)

(***************************************************************************)
(* C22: an exception raised while _deep_clean_data sanitizes one value of  *)
(* a mapping or one element of a list is recovered at that value alone: it *)
(* is replaced by an error-marker string, every sibling is sanitized as    *)
(* usual and kept, and the call returns without raising.                   *)
(***************************************************************************)
RecoveredLocally(h, in, out, d) ==
    /\ IsBroken(h, in) /\ d <= sanitizer.max_depth => IsErrorMarker(out)
    /\ ~IsBroken(h, in) => ~IsErrorMarker(out) /\ ElementSanitized(h, in, out)

C22_NarrowestScopeRecovery ==
    /\ SanitizerDone /\ sanitizer.fn = "_deep_clean_data"
          /\ ~IsBroken(sanitizer.heap, sanitizer.obj) => ~sanitizer.raised
    /\ DeepCleanReturned =>
          \A q \in WithinDepth :
             LET h == sanitizer.heap
             IN  /\ IsContainer(h, q.in, "dict") =>
                       \A i \in 1..Len(h[q.in.r].c) :
                          h[q.in.r].c[i].key \notin DenyList =>
                             /\ HasKey(q.out, h[q.in.r].c[i].key)
                             /\ RecoveredLocally(h, h[q.in.r].c[i].val,
                                                 Lookup(q.out, h[q.in.r].c[i].key), q.d + 1)
                 /\ IsContainer(h, q.in, "list") =>
                       /\ Len(q.out.c) = Min(Len(h[q.in.r].c), DeepCleanMaxItems)
                       /\ \A i \in 1..Len(q.out.c) :
                             RecoveredLocally(h, h[q.in.r].c[i].val, q.out.c[i].val, q.d + 1)

\* {a: broken mapping, b: 1, c: [broken list, 5, broken mapping]} came back
\* as {a: marker, b: 1, c: [marker, 5, marker]}
C22_Witness ==
    /\ DeepCleanReturned /\ sanitizer.heap = BrokenItems /\ sanitizer.default
    /\ Keys(sanitizer.out) = {"a", "b", "c"}
    /\ IsErrorMarker(Lookup(sanitizer.out, "a"))
    /\ Lookup(sanitizer.out, "b") = OSame(SInt(1))
    /\ Len(Lookup(sanitizer.out, "c").c) = 3
    /\ IsErrorMarker(Lookup(sanitizer.out, "c").c[1].val)
    /\ Lookup(sanitizer.out, "c").c[2].val = OSame(SInt(5))
    /\ IsErrorMarker(Lookup(sanitizer.out, "c").c[3].val)

(***************************************************************************)
(* C23: generate_clean_report returns a mapping with the same key set for  *)
(* every input and whatever fails inside report generation: session_id,    *)
(* timestamp, relatorio_executivo and each fixed named section are always  *)
(* present.                                                                *)
(***************************************************************************)
Reported == sanitizer.phase = "reported"

ReportKeys ==
    {"session_id", "timestamp", "engine_version", "relatorio_executivo",
     "avatar_cliente_ideal", "arsenal_psicologico", "analise_mercado_real",
     "estrategia_implementacao", "metricas_qualidade", "analise_funil_vendas",
     "insights_estrategicos_completos", "plano_acao_imediato"}

C23_ReportKeySetStable == Reported => Keys(sanitizer.out) = ReportKeys

(***************************************************************************)
(* C24: for the request Varejo / Curso X with every provider succeeding,   *)
(* the report generate_clean_report assembles from the orchestrator's      *)
(* consolidated report has qualidade_analise PREMIUM and                   *)
(* segmento_analisado Varejo.                                              *)
(***************************************************************************)
ExecutiveReport == Lookup(sanitizer.out, "relatorio_executivo")

C24_VarejoScenario ==
    Reported /\ sanitizer.heap = VarejoReport =>
        /\ HasKey(sanitizer.out, "relatorio_executivo")
        /\ Lookup(ExecutiveReport, "qualidade_analise").s = "PREMIUM"
        /\ Lookup(ExecutiveReport, "segmento_analisado").s = "Varejo"

(***************************************************************************)
(* C25: when salvar_etapa raises inside generate_clean_report, the call    *)
(* does not raise and returns exactly the report it returns when the save  *)
(* succeeds.                                                               *)
(***************************************************************************)
C25_ReportSaveFailureIgnored ==
    Reported /\ sanitizer.saveRaised =>
        /\ sanitizer.out = GenerateCleanReport(sanitizer.heap, sanitizer.obj,
                                               sanitizer.session_id, FALSE)
        /\ Keys(sanitizer.out) = ReportKeys

\* the save raised on the report of a mapping with research data, and the
\* PREMIUM report for Varejo came back
C25_Witness ==
    /\ Reported /\ sanitizer.saveRaised /\ sanitizer.heap = DirectData
    /\ sanitizer.saved = PyNone
    /\ Lookup(ExecutiveReport, "qualidade_analise") = PyStr("PREMIUM")
    /\ Lookup(ExecutiveReport, "segmento_analisado").s = "Varejo"
    /\ Lookup(ExecutiveReport, "tempo_processamento").s = "3s"

(***************************************************************************)
(* C28: within one invocation the steps run at most once each and in the   *)
(* order base analysis, enhanced analysis, funnel analysis, strategic      *)
(* insights, consolidation, persistence, a step beginning only when the    *)
(* previous one is over; and every step is attempted whatever the outcome  *)
(* of the earlier stages (stated for the calls whose sinks and callback    *)
(* did not raise).                                                         *)
(***************************************************************************)
StepOrder == << "base", "enhanced", "funnel", "insights", "consolidation", "persistence" >>

IsPrefix(a, b) == Len(a) <= Len(b) /\ a = SubSeq(b, 1, Len(a))

C28_StagesInOrder ==
    \A t \in Threads :
        /\ IsPrefix(hist[t].order, StepOrder)
        /\ hist[t].invoked \subseteq {hist[t].order[i] : i \in 1..Len(hist[t].order)}
        /\ Done(t) /\ SinksNominal(t) /\ CallbackNominal(t) => hist[t].order = StepOrder

(***************************************************************************)
(* C29: the context handed to the enhanced analysis, the funnel analysis   *)
(* and the strategic insights is the original request plus fields of       *)
(* earlier analyses, each a bounded copy made by _create_simple_copy: no   *)
(* key of a context is bound to a mapping or list of an earlier analysis   *)
(* itself; and building a context never modifies the request.              *)
(***************************************************************************)
LaterStages == {"enhanced", "funnel", "insights"}

ContextCopied(request, ctx) ==
    /\ Keys(request) \subseteq Keys(ctx.combined)
    /\ ctx.shared = {}
    /\ \A key \in Keys(ctx.combined) \ Keys(request) :
          SimpleCopy(Lookup(ctx.combined, key)) = Lookup(ctx.combined, key)

ContextsCopied ==
    \A t \in Threads : \A stage \in LaterStages \cap hist[t].invoked :
        ContextCopied(loc[t].data, hist[t].context[stage])

RequestKept ==
    \A t \in Threads :
        pc[t] \in {"stage1", "stage2", "stage3", "stage4"} => loc'[t].data = loc[t].data

C29_ContextsAreBoundedCopies == [](ContextsCopied) /\ [][RequestKept]_vars

(***************************************************************************)
(* C30: on the normal path the quality level written in the executive      *)
(* summary equals the top-level quality_level of the same result, and both *)
(* are PREMIUM exactly when the enhanced analysis produced a non-empty     *)
(* output.                                                                 *)
(***************************************************************************)
C30_QualityLevelsAgree ==
    \A t \in Threads :
        NormalPath(t) =>
            /\ Get(Summary(t), "Nivel de Qualidade", PyNone)
                  = Get(result[t], "quality_level", PyNone)
            /\ Get(result[t], "quality_level", PyNone) = PyStr("PREMIUM")
                  <=> Truthy(loc[t].enhanced_analysis)

(***************************************************************************)
(* C26: every read and every write of execution_state, by                  *)
(* execute_synchronized_analysis, get_analysis_status and                  *)
(* get_session_progress, is made while holding sync_lock: the map changes  *)
(* only in a step of the thread that holds the lock, and a status query    *)
(* never reads the map while another thread holds the lock to write it.    *)
(***************************************************************************)
Queried == query.fn # ""

QueryOutsideWrites == Queried => query.holder = 0

WritesUnderLock ==
    execution_state' # execution_state =>
        sync_lock \in Threads /\ pc[sync_lock] \in {"registering", "completing", "handling"}

C26_StateMapProtected == [](QueryOutsideWrites) /\ [][WritesUnderLock]_vars

(***************************************************************************)
(* C27: the lock does not serialize stages.  sync_lock is held only around *)
(* the assignments to execution_state, never while a provider, a sink or   *)
(* the callback runs, and is released on every path; a step of one call    *)
(* changes the recorded state of its own session only; and a call that     *)
(* waits for the lock eventually gets it.                                  *)
(***************************************************************************)
LockPcs == {"registering", "completing", "handling"}
Waiting(t) == pc[t] \in {"register", "complete", "handler"}

LockOnlyAroundMap ==
    /\ sync_lock \in Threads \cup {0}
    /\ \A t \in Threads : sync_lock = t <=> pc[t] \in LockPcs

OwnSessionOnly ==
    \A t \in Threads :
        pc'[t] # pc[t] =>
            \A s \in DOMAIN execution_state :
                s # loc[t].session_id => /\ s \in DOMAIN execution_state'
                                         /\ execution_state'[s] = execution_state[s]

C27_LockDoesNotSerializeStages ==
    /\ [](LockOnlyAroundMap)
    /\ [][OwnSessionOnly]_vars
    /\ \A t \in Threads : Waiting(t) ~> ~Waiting(t)

\* two sessions with different ids, both running, both inside a stage, the
\* lock free
C27_Witness ==
    /\ sync_lock = 0
    /\ pc[1] \in {"stage2", "stage3", "stage4"} /\ pc[2] \in {"stage2", "stage3", "stage4"}
    /\ loc[1].session_id # loc[2].session_id
    /\ execution_state[loc[1].session_id].status = "running"
    /\ execution_state[loc[2].session_id].status = "running"

====
